---- MODULE Spec2Model ----
(***************************************************************************)
(* A model of the bob-worker request handlers: the in-memory rate limiter, *)
(* the OAuth2 PKCE callback handlers, the LLM response normalizer and the  *)
(* score validation of the /process variants.                              *)
(*                                                                         *)
(* Each subsystem has its own specification (SpecRate, SpecOAuth, ...).    *)
(* The variables of the subsystems a specification does not run stay at    *)
(* their parked values.                                                    *)
(***************************************************************************)
EXTENDS Integers, Sequences, FiniteSets, TLC

VARIABLES
    now,          \* Date.now(), in milliseconds
    ticks,        \* how many times the clock has advanced
    rateLimits,   \* the Map key -> RateLimitInfo of the rate limiter
    windowCalls,  \* per key: isRateLimited calls since (and with) the one that opened the window
    lastCall,     \* the last isRateLimited call: its key and its return value
    variant,      \* which copy of the OAuth handlers is deployed: "index" or "callX"
    issued,       \* how many OAuth INIT requests have generated a state
    verifiers,    \* the rows of the oauth_verifiers table
    tokenStore,   \* the row of the access_tokens table
    authUrls,     \* the states for which an authorization URL was handed out
    req,          \* the callback requests in flight: position and locals of each
    normPc,       \* the normalizer: "parked", "ready", "validated", "classified"
    analysis,     \* the object decoded from the LLM reply
    result,       \* the ClassificationResult returned
    llmReply,     \* how the chat-completion request of classifyUser ended
    llmRequests,  \* chat-completion requests sent by classifyUser
    procPc,       \* POST /process: "parked", "ready", "done"
    procVariant,  \* which copy of processHandler is deployed
    llmResult,    \* the scores the LLM reply carries
    procResponse, \* the response of POST /process
    mainstream,   \* enhanceBasedScore: the texts of basedScore.mainstream_beliefs
    assertions,   \* enhanceBasedScore: allAssertions
    factPc,       \* enhanceBasedScore: "parked", "checking", "done"
    factIdx,      \* factCheckAssertions: assertions[1 .. factIdx] have been handled
    attempt,      \* retryFetch: the loop variable for the assertion at hand
    factRequests, \* per assertion: fetches of the fact-check endpoint
    factWaits,    \* per assertion: the setTimeout delays of retryFetch, in ms
    factReply,    \* the content of the last reply handed to parseFactCheckFromResponse
    factParsed,   \* what parseFactCheckFromResponse returned for factReply
    factChecks,   \* factCheckAssertions: results
    truthfulness, \* the truthfulness_score enhanceBasedScore returns
    extractPc,    \* extractAssertions: "parked" or "ready"
    replies,      \* the content of the reply to each extractAssertions call
    extractOutcome, \* how the request of each extractAssertions call so far ended
    extracted,    \* what each extractAssertions call so far returned
    retryPc,      \* completeWithRetry: "parked", "running", "returned", "thrown"
    retryAttempt, \* completeWithRetry: attempt
    callLog,      \* how each client.chat.completions.create call so far ended
    retryResult,  \* what completeWithRetry returned or threw
    delays,       \* completeWithRetry: the delayMs of each setTimeout so far
    corsPc,       \* the router: "parked", "ready", "done"
    corsVariant,  \* which code makes the CORS headers
    corsRequest,  \* the request: method, path, Origin header
    acao,         \* the Access-Control-Allow-Origin header of the response
    refresh,      \* the refresh requests in flight: position and locals of each
    routePc,      \* the router: "parked", "ready", "handling", "done"
    router,       \* which router is deployed
    routeRequest, \* the request: method and pathname
    ran,          \* the handlers the router has called for the request
    routeCalls,   \* store and upstream calls made for the request
    routeStatus,  \* the status of the response
    twPc,         \* TwitterClient.request: "parked", "running", "resolved", "rejected"
    twClient,     \* which copy of TwitterClient is deployed
    retryCount,   \* TwitterClient.request: retryCount of the frame at hand
    twLog,        \* how each fetch of TwitterClient.request so far ended
    loopPc,       \* the JSON-block /process copy: "parked", "loop", "responded"
    llmContent,   \* the content of the LLM reply
    parsedXData,  \* parsedXData
    parseRetries, \* retryCount of the parse loop
    parseCalls,   \* JSON.parse calls made by the parse loop
    loopStatus    \* the status of the response after the parse loop

clockVars == <<now, ticks>>
rateVars == <<rateLimits, windowCalls, lastCall>>
oauthVars == <<variant, issued, verifiers, tokenStore, authUrls, req>>
normVars == <<normPc, analysis, result, llmReply, llmRequests>>
procVars == <<procPc, procVariant, llmResult, procResponse>>
factVars == <<mainstream, assertions, factPc, factIdx, attempt, factRequests, factWaits, factReply,
              factParsed, factChecks, truthfulness>>
extractVars == <<extractPc, replies, extractOutcome, extracted>>
retryVars == <<retryPc, retryAttempt, callLog, retryResult, delays>>
corsVars == <<corsPc, corsVariant, corsRequest, acao>>
refreshVars == <<refresh>>
routeVars == <<routePc, router, routeRequest, ran, routeCalls, routeStatus>>
twitterVars == <<twPc, twClient, retryCount, twLog>>
loopVars == <<loopPc, llmContent, parsedXData, parseRetries, parseCalls, loopStatus>>
moreVars == <<routeVars, twitterVars, loopVars>>
laterVars == <<factVars, extractVars, retryVars, corsVars, refreshVars, moreVars>>
vars == <<clockVars, rateVars, oauthVars, normVars, procVars, laterVars>>

\* what a step of one subsystem leaves alone
RateOnly == UNCHANGED <<oauthVars, normVars, procVars, laterVars>>
OAuthOnly == UNCHANGED <<rateVars, normVars, procVars, laterVars>>
NormOnly == UNCHANGED <<clockVars, rateVars, oauthVars, procVars, laterVars>>
ProcOnly == UNCHANGED <<clockVars, rateVars, oauthVars, normVars, laterVars>>
FactOnly == UNCHANGED <<clockVars, rateVars, oauthVars, normVars, procVars, extractVars, retryVars, corsVars, refreshVars, moreVars>>
ExtractOnly == UNCHANGED <<clockVars, rateVars, oauthVars, normVars, procVars, factVars, retryVars, corsVars, refreshVars, moreVars>>
RetryOnly == UNCHANGED <<clockVars, rateVars, oauthVars, normVars, procVars, factVars, extractVars, corsVars, refreshVars, moreVars>>
CorsOnly == UNCHANGED <<clockVars, rateVars, oauthVars, normVars, procVars, factVars, extractVars, retryVars, refreshVars, moreVars>>
RefreshOnly ==
    UNCHANGED <<clockVars, rateVars, variant, issued, verifiers, authUrls, req, normVars, procVars,
                factVars, extractVars, retryVars, corsVars, moreVars>>
RouteOnly == UNCHANGED <<clockVars, rateVars, oauthVars, normVars, procVars, factVars, extractVars, retryVars, corsVars, refreshVars, twitterVars, loopVars>>
TwitterOnly == UNCHANGED <<clockVars, rateVars, oauthVars, normVars, procVars, factVars, extractVars, retryVars, corsVars, refreshVars, routeVars, loopVars>>
LoopOnly == UNCHANGED <<clockVars, rateVars, oauthVars, normVars, procVars, factVars, extractVars, retryVars, corsVars, refreshVars, routeVars, twitterVars>>

(***************************************************************************)
(* Bounds of the model.                                                    *)
(***************************************************************************)
MaxTicks == 2        \* clock advances in a run
MaxExtraCalls == 2   \* calls on the loaded key beyond RATE_LIMIT in one window
MaxOtherCalls == 2   \* calls on the other key in one window
MaxInits == 2        \* OAuth INIT requests in a run
MaxReqs == 2         \* OAuth callback requests in a run
MaxRefreshes == 2    \* OAuth refresh requests in a run
MaxPathParts == 3    \* segments of a request's pathname
MaxParseCalls == 7   \* JSON.parse calls of the parse loop that are followed
MaxAssertions == 2   \* assertions handed to factCheckAssertions
MaxItems == 3         \* items of a JSON array reply to extractAssertions
MaxSegments == 2     \* `Assertion N:` blocks of a markdown reply to extractAssertions
MaxSources == 1      \* source bullets of a fact-check reply

(***************************************************************************)
(* Rate limiter (src/unnamed/part_001).                                    *)
(***************************************************************************)
RATE_LIMIT == 300
WINDOW_MS == 15 * 60 * 1000

Keys == {"ip1", "ip2"}

\* rateLimits.get(key) of a key never set: has = FALSE
NoInfo == [has |-> FALSE, count |-> 0, resetAt |-> 0]

WindowOverAtReset(info, t) == ~info.has \/ t >= info.resetAt

\* `!info || now > info.resetAt`
WindowOver(info, t) == ~info.has \/ t > info.resetAt

LimitReachedOffByOne(info) == info.count > RATE_LIMIT

\* `info.count >= RATE_LIMIT`
LimitReached(info) == info.count >= RATE_LIMIT

\* the Map after isRateLimited(key) at time t
RateLimitsAfter(m, key, t) ==
    IF WindowOver(m[key], t)
    THEN [m EXCEPT ![key] = [has |-> TRUE, count |-> 1, resetAt |-> t + WINDOW_MS]]
    ELSE IF LimitReached(m[key])
         THEN m
         ELSE [m EXCEPT ![key].count = @ + 1]

\* the value isRateLimited(key) returns at time t
IsRateLimitedResult(m, key, t) ==
    IF WindowOver(m[key], t) THEN FALSE ELSE LimitReached(m[key])

\* the value getRateLimitRemaining(key) returns at time t
getRateLimitRemaining(m, key, t) ==
    IF WindowOver(m[key], t) THEN RATE_LIMIT
    ELSE IF RATE_LIMIT - m[key].count > 0 THEN RATE_LIMIT - m[key].count ELSE 0

\* how many calls one window of a key may see in the model
CallBudget(key) == IF key = "ip1" THEN RATE_LIMIT + MaxExtraCalls ELSE MaxOtherCalls

ClockInit ==
    /\ now = 0
    /\ ticks = 0

RateInit ==
    /\ rateLimits = [k \in Keys |-> NoInfo]
    /\ windowCalls = [k \in Keys |-> 0]
    /\ lastCall = [key |-> "ip1", ret |-> FALSE, made |-> FALSE]

isRateLimited(key) ==
    /\ WindowOver(rateLimits[key], now) \/ windowCalls[key] < CallBudget(key)
    /\ rateLimits' = RateLimitsAfter(rateLimits, key, now)
    /\ lastCall' = [key |-> key, ret |-> IsRateLimitedResult(rateLimits, key, now), made |-> TRUE]
    /\ windowCalls' = [windowCalls EXCEPT ![key] =
                          IF WindowOver(rateLimits[key], now) THEN 1 ELSE @ + 1]
    /\ UNCHANGED clockVars
    /\ RateOnly

\* time passes between requests
Tick(d) ==
    /\ ticks < MaxTicks
    /\ now' = now + d
    /\ ticks' = ticks + 1
    /\ UNCHANGED <<rateVars, oauthVars, normVars, procVars, laterVars>>

ClockSteps == {1, WINDOW_MS}

RateNext ==
    \/ \E key \in Keys : isRateLimited(key)
    \/ \E d \in ClockSteps : Tick(d)

(***************************************************************************)
(* OAuth2 PKCE handlers: handleOauthRequestToken / handleOauthCallback of  *)
(* src/src/index.ts (variant "index") and handleOAuthInit /                *)
(* handleOAuthCallback of src/src/callXApi.ts (variant "callX").  A        *)
(* handler is cut into one step per await.                                 *)
(***************************************************************************)
OAUTH_STATE_TTL_MS == 10 * 60 * 1000

Variants == {"index", "callX"}
Reqs == 1 .. MaxReqs

\* crypto.randomUUID() / generateRandomString(): the n-th value generated
StateName(n) == "s" \o ToString(n)
VerifierName(n) == "v" \o ToString(n)

\* what a callback request may carry: "" is a missing parameter, "forged" a
\* state no INIT ever generated
CallbackCodes == {"", "code"}
CallbackStates == {"", "forged"} \cup {StateName(n) : n \in 1 .. MaxInits}

NoToken == [has |-> FALSE, access_token |-> "", refresh_token |-> ""]

IdleReq == [pc |-> "idle", code |-> "", state |-> "", codeVerifier |-> "",
            rowSeen |-> "none", afterUse |-> FALSE, tokenReqs |-> 0, tokenOk |-> FALSE,
            wrote |-> FALSE, status |-> 0]

OAuthInit ==
    /\ variant \in Variants
    /\ issued = 0
    /\ verifiers = {}
    /\ tokenStore = NoToken
    /\ authUrls = {}
    /\ req = [r \in Reqs |-> IdleReq]

\* new Response(..., {status}) returned by the handler
Respond(q, st) == [q EXCEPT !.pc = "done", !.status = st]

\* INIT: generate state and verifier, insert the row, hand out the URL.
\* An insert error is thrown (500) and no URL is handed out.
handleOauthRequestToken(insertOk) ==
    /\ issued < MaxInits
    /\ issued' = issued + 1
    /\ IF insertOk
       THEN /\ verifiers' = verifiers \cup
                   {[state |-> StateName(issued + 1),
                     code_verifier |-> VerifierName(issued + 1),
                     expires_at |-> now + OAUTH_STATE_TTL_MS]}
            /\ authUrls' = authUrls \cup {StateName(issued + 1)}
       ELSE UNCHANGED <<verifiers, authUrls>>
    /\ UNCHANGED <<variant, tokenStore, req, clockVars>>
    /\ OAuthOnly

\* `!code || !state` (index.ts) / `!body.code || !body.state` (callXApi.ts)
MissingParams(code, state) == code = "" \/ state = ""

\* The callback up to its first await of the store.  The "callX" copy reads
\* the parameters from the JSON body: request.json() throws on a body that
\* is not JSON, and the catch answers 500.
CallbackStart(r, code, state, bodyOk) ==
    /\ req[r].pc = "idle"
    /\ variant = "index" => bodyOk
    /\ ~bodyOk => (code = "" /\ state = "")
    /\ req' = [req EXCEPT ![r] =
                 LET q == [@ EXCEPT !.code = code, !.state = state]
                 IN IF ~bodyOk THEN Respond(q, 500)
                    ELSE IF MissingParams(code, state) THEN Respond(q, 400)
                    ELSE [q EXCEPT !.pc = "lookup"]]
    /\ UNCHANGED <<variant, issued, verifiers, tokenStore, authUrls, clockVars>>
    /\ OAuthOnly

\* the rows `.eq('state', state)` selects
RowsOf(state) == {v \in verifiers : v.state = state}

\* how the row looked when the callback read it
RowSeen(rows, t) ==
    IF rows = {} THEN "absent"
    ELSE IF \E v \in rows : t > v.expires_at THEN "expired" ELSE "live"

\* getOAuthState (index.ts) / the select of callXApi.ts: `.single()` gives
\* an error unless exactly one row matches; an error or no data is "no state".
\* index.ts returns expiresAt with the verifier and the handler never reads it.
StateFound(rows, storeOk) == storeOk /\ Cardinality(rows) = 1

\* some other callback has finished a successful exchange with this state
UsedBefore(r) ==
    \E o \in Reqs \ {r} :
        req[o].pc = "done" /\ req[o].tokenOk /\ req[o].state = req[r].state

\* The lookup returns; without a state 400, else the token request is sent.
CallbackLookup(r, storeOk) ==
    /\ req[r].pc = "lookup"
    /\ LET rows == RowsOf(req[r].state)
           seen == [req[r] EXCEPT !.rowSeen = RowSeen(rows, now),
                                  !.afterUse = UsedBefore(r)]
       IN req' = [req EXCEPT ![r] =
                    IF ~StateFound(rows, storeOk)
                    THEN Respond(seen, 400)
                    ELSE [seen EXCEPT !.pc = "token",
                                   !.codeVerifier = (CHOOSE v \in rows : TRUE).code_verifier,
                                   !.tokenReqs = @ + 1]]
    /\ UNCHANGED <<variant, issued, verifiers, tokenStore, authUrls, clockVars>>
    /\ OAuthOnly

TokenOutcomes == {"ok", "rejected", "throw"}

\* The token endpoint answers: a thrown fetch is caught (500), a non-2xx
\* answer is passed on with its status, 2xx goes on to storeAccessToken
\* (index.ts) or to the users/me request (callXApi.ts).
CallbackToken(r, outcome) ==
    /\ req[r].pc = "token"
    /\ req' = [req EXCEPT ![r] =
                 IF outcome = "throw" THEN Respond(@, 500)
                 ELSE IF outcome = "rejected" THEN Respond(@, 401)
                 ELSE [@ EXCEPT !.tokenOk = TRUE,
                                !.pc = IF variant = "index" THEN "store" ELSE "user"]]
    /\ UNCHANGED <<variant, issued, verifiers, tokenStore, authUrls, clockVars>>
    /\ OAuthOnly

\* index.ts: storeAccessToken upserts the token row; its error is thrown and
\* caught (500).  The state row is not touched.
CallbackStore(r, upsertOk) ==
    /\ variant = "index"
    /\ req[r].pc = "store"
    /\ IF upsertOk
       THEN /\ tokenStore' = [has |-> TRUE,
                              access_token |-> "at" \o ToString(r),
                              refresh_token |-> "rt" \o ToString(r)]
            /\ req' = [req EXCEPT ![r] = Respond([@ EXCEPT !.wrote = TRUE], 200)]
       ELSE /\ req' = [req EXCEPT ![r] = Respond(@, 500)]
            /\ UNCHANGED tokenStore
    /\ UNCHANGED <<variant, issued, verifiers, authUrls, clockVars>>
    /\ OAuthOnly

\* callXApi.ts: users/me answers; only a 2xx answer goes on to the clean-up.
CallbackUser(r, outcome) ==
    /\ variant = "callX"
    /\ req[r].pc = "user"
    /\ req' = [req EXCEPT ![r] =
                 IF outcome = "throw" THEN Respond(@, 500)
                 ELSE IF outcome = "rejected" THEN Respond(@, 401)
                 ELSE [@ EXCEPT !.pc = "delete"]]
    /\ UNCHANGED <<variant, issued, verifiers, tokenStore, authUrls, clockVars>>
    /\ OAuthOnly

\* callXApi.ts: "Clean up verifier"; the result of the delete is not read.
CallbackDelete(r, deleteOk) ==
    /\ variant = "callX"
    /\ req[r].pc = "delete"
    /\ verifiers' = IF deleteOk THEN verifiers \ RowsOf(req[r].state) ELSE verifiers
    /\ req' = [req EXCEPT ![r] = Respond(@, 200)]
    /\ UNCHANGED <<variant, issued, tokenStore, authUrls, clockVars>>
    /\ OAuthOnly

OAuthNext ==
    \/ \E insertOk \in BOOLEAN : handleOauthRequestToken(insertOk)
    \/ \E r \in Reqs, code \in CallbackCodes, state \in CallbackStates, bodyOk \in BOOLEAN :
          CallbackStart(r, code, state, bodyOk)
    \/ \E r \in Reqs, storeOk \in BOOLEAN : CallbackLookup(r, storeOk)
    \/ \E r \in Reqs, outcome \in TokenOutcomes : CallbackToken(r, outcome)
    \/ \E r \in Reqs, upsertOk \in BOOLEAN : CallbackStore(r, upsertOk)
    \/ \E r \in Reqs, outcome \in TokenOutcomes : CallbackUser(r, outcome)
    \/ \E r \in Reqs, deleteOk \in BOOLEAN : CallbackDelete(r, deleteOk)
    \/ \E d \in ClockSteps : Tick(d)

(***************************************************************************)
(* JavaScript values as the normalizer sees them.  A number is held in     *)
(* hundredths (0.8 is 80, 100 is 10000).  A property that is missing reads *)
(* as undefined.  str 0 is 'unknown', str 1 a non-numeric text such as     *)
(* "high"; arr 0 is [], arr 1 a non-empty array.                           *)
(***************************************************************************)
Units(n) == n * 100
Undefined == [t |-> "undefined", v |-> 0]
Null == [t |-> "null", v |-> 0]
NaN == [t |-> "nan", v |-> 0]
Num(n) == [t |-> "num", v |-> n]
Str(i) == [t |-> "str", v |-> i]
Arr(i) == [t |-> "arr", v |-> i]

\* ToNumber, as Math.min, Math.max and `*` apply it
ToNumber(x) ==
    CASE x.t = "num" -> x
      [] x.t = "null" -> Num(0)
      [] x.t = "arr" -> IF x.v = 0 THEN Num(0) ELSE NaN
      [] OTHER -> NaN

\* ToBoolean, as `!x` and `x &&` apply it
Truthy(x) ==
    CASE x.t = "num" -> x.v # 0
      [] x.t \in {"str", "arr"} -> TRUE
      [] OTHER -> FALSE

MathMin(a, b) ==
    LET x == ToNumber(a)
        y == ToNumber(b)
    IN IF x.t = "nan" \/ y.t = "nan" THEN NaN ELSE IF x.v <= y.v THEN x ELSE y

MathMax(a, b) ==
    LET x == ToNumber(a)
        y == ToNumber(b)
    IN IF x.t = "nan" \/ y.t = "nan" THEN NaN ELSE IF x.v >= y.v THEN x ELSE y

\* `x * 100`
Times100(x) ==
    LET n == ToNumber(x)
    IN IF n.t = "nan" THEN NaN ELSE Num(n.v * 100)

(***************************************************************************)
(* IdeologyClassifier (src/src/services/IdeologyClassifier.ts; the copy in *)
(* src/unnamed/part_000 has the same validateResponse).                    *)
(***************************************************************************)
ScoreFields == {"conviction", "authenticity", "intellectual_rigor", "contrarian"}

\* a score_components value: an object (its four properties, undefined when
\* missing), or null, or a number, or undefined
Components(t, c, a, i, k) ==
    [t |-> t, conviction |-> c, authenticity |-> a, intellectual_rigor |-> i, contrarian |-> k]
NoComponents(t) == Components(t, Undefined, Undefined, Undefined, Undefined)

defaultResult ==
    [category |-> Str(0),
     confidence |-> Num(0),
     key_indicators |-> Arr(0),
     secondary_influences |-> Arr(0),
     language_patterns |-> Arr(0),
     conviction |-> Num(0),
     based_score |-> Num(0),
     score_components |-> Components("obj", Num(0), Num(0), Num(0), Num(0))]

ResultFields == DOMAIN defaultResult

\* `{ ...defaultResult, ...analysis }`: a property analysis has, whatever
\* its value, replaces the default's; score_components is replaced whole
Spread(base, over) ==
    [f \in ResultFields |-> IF over[f].t = "undefined" THEN base[f] ELSE over[f]]

DeriveAlways(r) == [r EXCEPT !.based_score = Times100(r.conviction)]

\* `if (!result.based_score && result.conviction) result.based_score = result.conviction * 100`
DeriveBasedScore(r) ==
    IF ~Truthy(r.based_score) /\ Truthy(r.conviction)
    THEN [r EXCEPT !.based_score = Times100(r.conviction)]
    ELSE r

\* `result.confidence = Math.max(0.0, Math.min(1.0, result.confidence))`
ClampConfidence(r) ==
    [r EXCEPT !.confidence = MathMax(Num(0), MathMin(Num(Units(1)), r.confidence))]

validateResponse(a) == ClampConfidence(DeriveBasedScore(Spread(defaultResult, a)))

\* the JSON-shaped values the LLM reply may decode to; JSON.parse of `null`,
\* of a number or of a text spreads no property, like {}
Analyses ==
    [category : {Undefined, Null, Str(1)},
     confidence : {Undefined, Null, NaN, Str(1),
                   Num(-50), Num(0), Num(50), Num(Units(1)), Num(150)},
     key_indicators : {Undefined, Null, Arr(1)},
     secondary_influences : {Undefined, Arr(1)},
     language_patterns : {Undefined, Arr(0)},
     conviction : {Undefined, Null, Num(-50), Num(0), Num(80), Num(Units(5))},
     based_score : {Undefined, Null, Num(0), Num(Units(70)), Num(Units(150))},
     score_components : {NoComponents("undefined"), NoComponents("null"),
                         Components("obj", Num(80), Num(60), Num(50), Num(50)),
                         Components("obj", Num(50), Undefined, Undefined, Undefined),
                         Components("obj", Num(80), Num(Units(2)), Null, Num(50))}]

EmptyAnalysis ==
    [f \in ResultFields |->
        IF f = "score_components" THEN NoComponents("undefined") ELSE Undefined]

FallbackAnalysisHalfSure == [EmptyAnalysis EXCEPT !.category = Str(0), !.confidence = Num(50)]

\* what the catch of classifyUser passes on: {category: 'unknown', confidence: 0.0}
FallbackAnalysis == [EmptyAnalysis EXCEPT !.category = Str(0), !.confidence = Num(0)]

\* the answers of the chat-completion request: the fetch throws, a non-2xx
\* status, a body without choices[0].message.content, content that is not
\* JSON, content that is JSON
LlmReplies == {"throw", "non2xx", "nocontent", "badjson", "json"}

\* the canned result of the copy in src/unnamed/part_000
getFakeApiResponse ==
    [category |-> Str(1),
     confidence |-> Num(60),
     key_indicators |-> Arr(1),
     secondary_influences |-> Arr(1),
     language_patterns |-> Arr(1),
     conviction |-> Num(80),
     based_score |-> Num(Units(70)),
     score_components |-> Components("obj", Num(80), Num(60), Num(50), Num(50))]

NormParked ==
    /\ normPc = "parked"
    /\ analysis = EmptyAnalysis
    /\ result = defaultResult
    /\ llmReply = "none"
    /\ llmRequests = 0

NormInit ==
    /\ normPc = "ready"
    /\ analysis \in Analyses
    /\ result = defaultResult
    /\ llmReply = "none"
    /\ llmRequests = 0

\* validateResponse applied to the decoded reply
ValidateResponse ==
    /\ normPc = "ready"
    /\ result' = validateResponse(analysis)
    /\ normPc' = "validated"
    /\ UNCHANGED <<analysis, llmReply, llmRequests>>
    /\ NormOnly

\* classifyUser: one request; every failure lands in the catch.  Called
\* with fakeApi (src/unnamed/part_000 only) it returns the canned result
\* before any request: reply is then "none".
classifyUser(fakeApi, reply) ==
    /\ normPc = "ready"
    /\ fakeApi <=> reply = "none"
    /\ llmRequests' = IF fakeApi THEN llmRequests ELSE llmRequests + 1
    /\ llmReply' = reply
    /\ result' = IF fakeApi THEN getFakeApiResponse
                 ELSE IF reply = "json" THEN validateResponse(analysis)
                 ELSE validateResponse(FallbackAnalysis)
    /\ normPc' = "classified"
    /\ UNCHANGED analysis
    /\ NormOnly

NormNext ==
    \/ ValidateResponse
    \/ \E fakeApi \in BOOLEAN, reply \in LlmReplies \cup {"none"} : classifyUser(fakeApi, reply)

(***************************************************************************)
(* POST /process: the BasedScore copy (src/src/index.ts), the two Grok     *)
(* text-parsing copies and the fenced-JSON copy (src/src/processHandler.ts)*)
(* Each handler is one step from the request to its response.              *)
(***************************************************************************)
ValidateScoreExclusive(score) ==
    IF score.t # "num" \/ score.v <= 0 \/ score.v >= Units(100)
    THEN Num(Units(50))
    ELSE score

\* `typeof score !== 'number' || isNaN(score) || score < 0 || score > 100`
\* (t is "num" for the numbers other than NaN)
validateScore(score) ==
    IF score.t # "num" \/ score.v < 0 \/ score.v > Units(100)
    THEN Num(Units(50))
    ELSE score

BasedScoreFields == {"based_score", "sincerity_score", "truthfulness_score", "conspiracy_score"}
BodyScores == BasedScoreFields \cup {"score", "basedScore", "engagementScore"}

NoScores == [f \in BodyScores |-> Undefined]

\* the scores of TEST_BASED_SCORE
TEST_BASED_SCORE ==
    [NoScores EXCEPT !.based_score = Num(Units(75)), !.sincerity_score = Num(Units(85)),
                     !.truthfulness_score = Num(Units(70)), !.conspiracy_score = Num(Units(60))]

\* getBasedScore after completeWithRetry: the four scores, each validated
\* on its own
ValidatedScores(llm) ==
    [f \in BodyScores |-> IF f \in BasedScoreFields THEN validateScore(llm[f]) ELSE Undefined]

\* `Math.min(100, Math.max(0, parseInt(scoreMatch[1])))`
GrokScore(m) == MathMin(Num(Units(100)), MathMax(Num(0), m))

ProcVariants == {"based", "grok1", "grok2", "fenced"}

\* what the LLM may put where a score is read
ScoreValues == {Undefined, NaN, Str(1), Num(-1), Num(0), Num(Units(50)),
                Num(Units(100)), Num(Units(100) + 1)}
\* the digits `(\d+)` captures, parsed; Undefined when the pattern finds none
MatchValues == {Undefined, Num(0), Num(Units(69)), Num(Units(100)),
                Num(Units(101)), Num(Units(9999))}
FencedValues == {Undefined, Null, Str(1), Num(Units(-5)), Num(0), Num(Units(50)),
                 Num(Units(150))}

\* the reply of the LLM, as far as the scores go: the four scores of the
\* structured reply, the captured score of a Grok text, the two scores of
\* the fenced JSON block
LlmResults(v) ==
    CASE v = "based" ->
           {[NoScores EXCEPT !.based_score = a, !.sincerity_score = b,
                             !.truthfulness_score = c, !.conspiracy_score = d] :
               a \in ScoreValues, b \in ScoreValues, c \in ScoreValues, d \in ScoreValues}
      [] v \in {"grok1", "grok2"} ->
           {[NoScores EXCEPT !.score = m] : m \in MatchValues}
      [] OTHER ->
           {[NoScores EXCEPT !.basedScore = a, !.engagementScore = b] :
               a \in FencedValues, b \in FencedValues}

\* a response: its status, whether the body has an `error` key, the scores
\* in the body; via is the path of the handler that produced it
NoResponse == [status |-> 0, error |-> FALSE, body |-> NoScores, via |-> "none"]
Ok(body) == [status |-> 200, error |-> FALSE, body |-> body, via |-> "none"]
Fail(st) == [status |-> st, error |-> TRUE, body |-> NoScores, via |-> "none"]

ProcParked ==
    /\ procPc = "parked"
    /\ procVariant = "based"
    /\ llmResult = NoScores
    /\ procResponse = NoResponse

ProcInit ==
    /\ procPc = "ready"
    /\ procVariant \in ProcVariants
    /\ llmResult \in LlmResults(procVariant)
    /\ procResponse = NoResponse

Answer(outcome, response) ==
    /\ procResponse' = [response EXCEPT !.via = outcome]
    /\ procPc' = "done"
    /\ UNCHANGED <<procVariant, llmResult>>
    /\ ProcOnly

BasedOutcomes == {"noauth", "twitter", "llm", "test", "ok"}

\* index.ts: no Bearer header and an LLM failure are plain errors (500), a
\* TwitterAPIError is 404; with test data TEST_BASED_SCORE is returned as it is
processHandlerBased(outcome) ==
    /\ procPc = "ready"
    /\ procVariant = "based"
    /\ Answer(outcome,
              CASE outcome = "twitter" -> Fail(404)
                [] outcome \in {"noauth", "llm"} -> Fail(500)
                [] outcome = "test" -> Ok(TEST_BASED_SCORE)
                [] OTHER -> Ok(ValidatedScores(llmResult)))

GrokOutcomes == {"notoken", "notweets", "twitter", "llm", "ok"}

\* processHandler.ts, Grok copies: the first falls back to 69 when the text
\* has no "based score: <digits>", the second throws (500)
processHandlerGrok(outcome) ==
    /\ procPc = "ready"
    /\ procVariant \in {"grok1", "grok2"}
    /\ Answer(outcome,
              CASE outcome \in {"notoken", "notweets"} -> Fail(400)
                [] outcome \in {"twitter", "llm"} -> Fail(500)
                [] OTHER ->
                     IF llmResult.score.t = "undefined"
                     THEN IF procVariant = "grok1"
                          THEN Ok([NoScores EXCEPT !.basedScore = Num(Units(69))])
                          ELSE Fail(500)
                     ELSE Ok([NoScores EXCEPT !.basedScore = GrokScore(llmResult.score)]))

FencedOutcomes == {"fake", "twitter", "throw", "unparsable", "ok"}

\* processHandler.ts, fenced-JSON copy: a failed user lookup is a TypeError
\* like any other failure (500); the parsed block is sent back as it
\* is once basedScore and engagementScore are both truthy; "Invalid response
\* from AI" is sent without a status, which is 200
processHandlerFenced(outcome) ==
    /\ procPc = "ready"
    /\ procVariant = "fenced"
    /\ Answer(outcome,
              CASE outcome = "fake" -> Ok([NoScores EXCEPT !.score = Num(Units(89))])
                [] outcome \in {"twitter", "throw", "unparsable"} -> Fail(500)
                [] OTHER ->
                     IF ~Truthy(llmResult.basedScore) \/ ~Truthy(llmResult.engagementScore)
                     THEN Fail(200)
                     ELSE Ok(llmResult))

ProcNext ==
    \/ \E outcome \in BasedOutcomes : processHandlerBased(outcome)
    \/ \E outcome \in GrokOutcomes : processHandlerGrok(outcome)
    \/ \E outcome \in FencedOutcomes : processHandlerFenced(outcome)

(***************************************************************************)
(* Fact checking (src/src/assertion-checker.ts): factCheckAssertions with  *)
(* retryFetch and parseFactCheckFromResponse, and the truthfulness score   *)
(* of enhanceBasedScore.  Texts are sequences of characters; confidences   *)
(* are held in hundredths.                                                 *)
(***************************************************************************)
SeqsUpTo(S, n) == UNION {[1 .. k -> S] : k \in 0 .. n}

\* String.prototype.includes
includes(text, s) ==
    \E i \in 0 .. Len(text) - Len(s) : SubSeq(text, i + 1, i + Len(s)) = s

\* basedScore.mainstream_beliefs (the belief texts), and the assertions
\* extractAssertions can return for them
MainstreamBeliefs == {<<>>, << <<"a", "b">> >>}
Assertions == [statement : {<<"a">>, <<"b", "a">>}, isFactCheckable : BOOLEAN]

\* a line of a reply, trimmed: whether it starts with '-', and the trimmed
\* pieces of split(':') (for a bullet: of the text after the '-')
\* replies in the requested format (Determination, Confidence, Explanation,
\* source bullets), each part well-formed, malformed or missing
FactContents ==
    LET Part(texts) == {<<>>} \cup {<<[dash |-> FALSE, parts |-> t]>> : t \in texts}
    IN {d \o c \o e \o b :
            d \in Part({<<"Determination", "true">>, <<"determination", "no">>}),
            c \in Part({<<"Confidence", "0.33">>, <<"Confidence", "1.5">>,
                        <<"Confidence", "high">>}),
            e \in Part({<<"Explanation", "because">>, <<"Explanation", "">>}),
            b \in SeqsUpTo([dash : {TRUE}, parts : {<<"src">>, <<"">>}], MaxSources)}

toLowerCase(s) ==
    CASE s = "Determination" -> "determination"
      [] s = "Confidence" -> "confidence"
      [] s = "Explanation" -> "explanation"
      [] OTHER -> s

\* trimmedLine.toLowerCase().startsWith(label + ':')
startsWith(line, label) ==
    ~line.dash /\ Len(line.parts) >= 2 /\ toLowerCase(line.parts[1]) = label

\* parseFloat of the confidence texts, in hundredths
parseFloat(s) ==
    CASE s = "0.33" -> Num(33)
      [] s = "1.5" -> Num(150)
      [] s = "1" -> Num(100)
      [] s = "0.9" -> Num(90)
      [] s = "5" -> Num(500)
      [] OTHER -> NaN

\* the object parseFactCheckFromResponse builds; `set` holds the properties
\* that have been assigned (are not undefined)
FactCheck(t, set, isTrue, confidence, explanation, sources) ==
    [t |-> t, set |-> set, isTrue |-> isTrue, confidence |-> confidence,
     explanation |-> explanation, sources |-> sources]
NoFactCheck == FactCheck("null", {}, FALSE, 0, "", <<>>)

\* the body of the loop over the lines
ParseLine(res, line) ==
    CASE ~line.dash /\ line.parts = <<"">> -> res
      [] startsWith(line, "determination") ->
           [res EXCEPT !.set = @ \cup {"isTrue"},
                          !.isTrue = toLowerCase(line.parts[2]) \in {"true", "yes"}]
      [] startsWith(line, "confidence") ->
           LET value == parseFloat(line.parts[2])
           IN [res EXCEPT !.set = @ \cup {"confidence"},
                             !.confidence = IF value.t = "nan" THEN 50
                                            ELSE MathMax(Num(0), MathMin(Num(Units(1)), value)).v]
      [] startsWith(line, "explanation") ->
           [res EXCEPT !.set = @ \cup {"explanation"}, !.explanation = line.parts[2]]
      [] line.dash ->
           IF line.parts # <<"">>
           THEN [res EXCEPT !.sources = Append(@, line.parts[1])]
           ELSE res
      [] OTHER -> res

RECURSIVE ParseLines(_, _)
ParseLines(res, lines) ==
    IF lines = <<>> THEN res
    ELSE ParseLines(ParseLine(res, Head(lines)), Tail(lines))

FactCheckWithoutSources(res) ==
    ~({"isTrue", "confidence"} \subseteq res.set /\ res.explanation # "")

\* `result.isTrue !== undefined && result.confidence !== undefined &&
\* result.explanation && result.sources?.length`, negated
FactCheckIncomplete(res) ==
    ~({"isTrue", "confidence"} \subseteq res.set /\ res.explanation # ""
      /\ Len(res.sources) > 0)

parseFactCheckFromResponse(content) ==
    LET res == ParseLines(FactCheck("object", {}, FALSE, 0, "", <<>>), content)
    IN IF FactCheckIncomplete(res) THEN NoFactCheck ELSE res

\* `isMainstream ? 1.2 : 0.8`, in tenths
WeightFlat(check, beliefs) == 10

Weight(check, beliefs) ==
    IF \E b \in 1 .. Len(beliefs) : includes(beliefs[b], check.statement) THEN 12 ELSE 8

\* factChecks.reduce(..., 0), in tenths
RECURSIVE WeightedScore(_, _)
WeightedScore(checks, beliefs) ==
    IF checks = <<>> THEN 0
    ELSE LET check == checks[Len(checks)]
         IN WeightedScore(SubSeq(checks, 1, Len(checks) - 1), beliefs)
            + (IF check.isTrue THEN check.confidence * Weight(check, beliefs) ELSE 0)

\* Math.round(num / den) for den > 0: the nearest integer, halves upwards
MathRound(num, den) == (2 * num + den) \div (2 * den)

calculateEnhancedTruthfulnessScore(checks, beliefs) ==
    IF Len(checks) = 0 THEN 50
    ELSE MathRound(WeightedScore(checks, beliefs), 10 * Len(checks))

factCheckableUnfiltered == 1 .. Len(assertions)

\* assertions.filter((a) => a.isFactCheckable): the positions kept
factCheckable == {i \in 1 .. Len(assertions) : assertions[i].isFactCheckable}
CheckableAt(k) ==
    CHOOSE i \in factCheckable : Cardinality({j \in factCheckable : j <= i}) = k

FactParked ==
    /\ mainstream = <<>>
    /\ assertions = <<>>
    /\ factPc = "parked"
    /\ factIdx = 0
    /\ attempt = 0
    /\ factRequests = <<>>
    /\ factWaits = <<>>
    /\ factReply = [at |-> 0, content |-> <<>>]
    /\ factParsed = NoFactCheck
    /\ factChecks = <<>>
    /\ truthfulness = 0

\* enhanceBasedScore has been called with some basedScore
FactInit ==
    /\ mainstream \in MainstreamBeliefs
    /\ assertions = <<>>
    /\ factPc = "start"
    /\ factIdx = 0
    /\ attempt = 0
    /\ factRequests = <<>>
    /\ factWaits = <<>>
    /\ factReply = [at |-> 0, content |-> <<>>]
    /\ factParsed = NoFactCheck
    /\ factChecks = <<>>
    /\ truthfulness = 0

\* the end of factCheckAssertions and the rest of enhanceBasedScore, once
\* `handled` fact-checkable assertions have been dealt with
FinishFactChecks(handled, count, checks) ==
    IF handled = count
    THEN /\ factPc' = "done"
         /\ truthfulness' = calculateEnhancedTruthfulnessScore(checks, mainstream)
    ELSE /\ factPc' = "checking"
         /\ UNCHANGED truthfulness

\* enhanceBasedScore up to the first fetch of factCheckAssertions: the two
\* extractAssertions calls have returned `all`
enhanceBasedScore(all) ==
    /\ factPc = "start"
    /\ assertions' = all
    /\ factRequests' = [i \in 1 .. Len(all) |-> 0]
    /\ factWaits' = [i \in 1 .. Len(all) |-> <<>>]
    /\ FinishFactChecks(0, Cardinality({i \in 1 .. Len(all) : all[i].isFactCheckable}), <<>>)
    /\ UNCHANGED <<mainstream, factIdx, attempt, factReply, factParsed, factChecks>>
    /\ FactOnly

\* retryFetch(url, options, maxRetries = 3)
maxRetries == 3

FetchOutcomes == {"ok", "nojson", "nocontent", "non2xx", "throw"}

\* retryFetch: the delays slept after attempt `a` ended with `outcome`.  A
\* response that is not ok is followed by the setTimeout on every attempt;
\* the catch leaves the loop on the last attempt before its setTimeout.
retryFetchWaits(outcome, a) ==
    IF outcome = "non2xx" \/ (outcome = "throw" /\ a # maxRetries - 1)
    THEN <<2 ^ a * 1000>> ELSE <<>>

\* one attempt of retryFetch for the assertion at hand, and what
\* factCheckAssertions does with its outcome
retryFetchAttempt(outcome, content) ==
    /\ factPc = "checking"
    /\ LET i == CheckableAt(factIdx + 1)
           parsed == parseFactCheckFromResponse(content)
           pushed == IF parsed.t = "null" THEN factChecks
                     ELSE Append(factChecks,
                                 [statement |-> assertions[i].statement, of |-> i,
                                  isTrue |-> parsed.isTrue, confidence |-> parsed.confidence,
                                  explanation |-> parsed.explanation, sources |-> parsed.sources])
       IN /\ factRequests' = [factRequests EXCEPT ![i] = @ + 1]
          /\ factWaits' = [factWaits EXCEPT ![i] = @ \o retryFetchWaits(outcome, attempt)]
          /\ CASE outcome = "ok" ->
                    /\ factReply' = [at |-> i, content |-> content]
                    /\ factParsed' = parsed
                    /\ factChecks' = pushed
                    /\ factIdx' = factIdx + 1
                    /\ attempt' = 0
                    /\ FinishFactChecks(factIdx + 1, Cardinality(factCheckable), pushed)
               [] outcome \in {"nojson", "nocontent"} \/ attempt + 1 >= maxRetries ->
                    /\ factIdx' = factIdx + 1
                    /\ attempt' = 0
                    /\ FinishFactChecks(factIdx + 1, Cardinality(factCheckable), factChecks)
                    /\ UNCHANGED <<factReply, factParsed, factChecks>>
               [] OTHER ->
                    /\ attempt' = attempt + 1
                    /\ UNCHANGED <<factPc, factIdx, factReply, factParsed, factChecks, truthfulness>>
    /\ UNCHANGED <<mainstream, assertions>>
    /\ FactOnly

FactNext ==
    \/ \E all \in SeqsUpTo(Assertions, MaxAssertions) : enhanceBasedScore(all)
    \/ \E outcome \in FetchOutcomes :
          \E content \in IF outcome = "ok" THEN FactContents ELSE {<<>>} :
              retryFetchAttempt(outcome, content)

(***************************************************************************)
(* Assertion extraction (src/src/assertion-checker.ts): extractAssertions  *)
(* and parseAssertionsFromResponse.  A reply is a JSON array of items, a   *)
(* JSON value that is not an array, or text in the markdown format; the    *)
(* markdown text is held as its lines (label, value).                      *)
(***************************************************************************)
\* values of a decoded JSON item's property: t is the JavaScript type
Json(t, v) == [t |-> t, v |-> v]
JsonItem(t, statement, checkable, model, user) ==
    [t |-> t, statement |-> statement, isFactCheckable |-> checkable,
     modelConfidence |-> model, userConfidence |-> user]

\* the items of a JSON array reply: two valid ones, a confidence out of
\* range, no statement, a confidence of the wrong type, and null
JsonItems ==
    {JsonItem("object", Json("string", "X"), Json("boolean", TRUE), Num(100), Num(100)),
     JsonItem("object", Json("string", "Y"), Json("boolean", FALSE), Num(90), Num(100)),
     JsonItem("object", Json("string", "X"), Json("boolean", TRUE), Num(500), Num(100)),
     JsonItem("object", Undefined, Json("boolean", TRUE), Num(100), Num(100)),
     JsonItem("object", Json("string", "Y"), Json("boolean", TRUE), Json("string", "0.9"), Num(100)),
     JsonItem("null", Undefined, Undefined, Undefined, Undefined)}

\* the lines of one `Assertion N:` block of a markdown reply; "" leaves the
\* line out
Segments ==
    [statement : {"X", "Y", ""}, checkable : {"yes", "no", ""},
     model : {"1", "0.9", "5", ""}, user : {"1", ""}]

MdLine(label, value) == [label |-> label, value |-> value]
MdBlock(seg) ==
    <<MdLine("Assertion", "")>>
    \o (IF seg.statement = "" THEN <<>> ELSE <<MdLine("Statement", seg.statement)>>)
    \o (IF seg.checkable = "" THEN <<>> ELSE <<MdLine("Fact-checkable", seg.checkable)>>)
    \o (IF seg.model = "" THEN <<>> ELSE <<MdLine("Model Confidence", seg.model)>>)
    \o (IF seg.user = "" THEN <<>> ELSE <<MdLine("User Confidence", seg.user)>>)

RECURSIVE MdText(_)
MdText(segs) == IF segs = <<>> THEN <<>> ELSE MdBlock(Head(segs)) \o MdText(Tail(segs))

Content(kind, items, lines) == [kind |-> kind, items |-> items, lines |-> lines]
Contents ==
    {Content("array", items, <<>>) : items \in SeqsUpTo(JsonItems, MaxItems)}
    \cup {Content("other", <<>>, <<>>)}
    \cup {Content("markdown", <<>>, MdText(segs)) : segs \in SeqsUpTo(Segments, MaxSegments)}

\* AssertionSchema.parse: the validated assertion, or nothing when it throws
AssertionSchemaAnyNumber(o) ==
    IF o.statement.t = "string" /\ o.isFactCheckable.t = "boolean"
       /\ o.modelConfidence.t = "num" /\ o.userConfidence.t = "num"
    THEN <<[statement |-> o.statement.v, isFactCheckable |-> o.isFactCheckable.v,
            modelConfidence |-> o.modelConfidence.v, userConfidence |-> o.userConfidence.v]>>
    ELSE <<>>

AssertionSchemaParse(o) ==
    IF /\ o.statement.t = "string"
       /\ o.isFactCheckable.t = "boolean"
       /\ o.modelConfidence.t = "num" /\ o.modelConfidence.v >= 0
       /\ o.modelConfidence.v <= Units(1)
       /\ o.userConfidence.t = "num" /\ o.userConfidence.v >= 0
       /\ o.userConfidence.v <= Units(1)
    THEN <<[statement |-> o.statement.v, isFactCheckable |-> o.isFactCheckable.v,
            modelConfidence |-> o.modelConfidence.v, userConfidence |-> o.userConfidence.v]>>
    ELSE <<>>

\* parsed.map(...).filter((a) => a !== null)
RECURSIVE ParseItems(_)
ParseItems(items) ==
    IF items = <<>> THEN <<>>
    ELSE (IF Head(items).t = "null" THEN <<>> ELSE AssertionSchemaParse(Head(items)))
         \o ParseItems(Tail(items))

\* content.split(/(?=\d+\.|Assertion \d+:|\n\n)/g): a section starts at each
\* `Assertion N:` and in front of each number written with a decimal point
RECURSIVE SplitSections(_, _)
SplitSections(lines, section) ==
    IF lines = <<>> THEN <<section>>
    ELSE LET line == Head(lines)
         IN CASE line.label = "Assertion" ->
                   <<section>> \o SplitSections(Tail(lines), <<line>>)
              [] line.value \in {"0.9", "0.33", "1.5"} ->
                   <<Append(section, MdLine(line.label, ""))>>
                   \o SplitSections(Tail(lines), <<MdLine("", line.value)>>)
              [] OTHER -> SplitSections(Tail(lines), Append(section, line))

\* section.match(/label:\s*(...)/): the value of the first line of the
\* section that carries one of the labels and a value
Match(section, labels) ==
    LET hits == SelectSeq(section, LAMBDA l : l.label \in labels /\ l.value # "")
    IN IF hits = <<>> THEN "" ELSE hits[1].value

\* the body of the loop over the sections
ParseSection(section) ==
    LET statement == Match(section, {"Statement"})
        factCheck == Match(section, {"Fact-checkable"})
        modelConf == Match(section, {"Model Confidence", "User Confidence"})
        userConf == Match(section, {"User Confidence"})
    IN IF statement = "" THEN <<>>
       ELSE AssertionSchemaParse(
                JsonItem("object", Json("string", statement),
                         Json("boolean", factCheck = "yes"),
                         IF modelConf = "" THEN Num(50) ELSE parseFloat(modelConf),
                         IF userConf = "" THEN Num(50) ELSE parseFloat(userConf)))

RECURSIVE ParseSections(_)
ParseSections(sections) ==
    IF sections = <<>> THEN <<>>
    ELSE ParseSection(Head(sections)) \o ParseSections(Tail(sections))

parseAssertionsFromResponse(c) ==
    IF c.kind = "array" THEN ParseItems(c.items)
    ELSE ParseSections(SplitSections(c.lines, <<>>))

\* Number.toString of a confidence (held in hundredths)
NumText(n) == CASE n = 100 -> "1" [] n = 90 -> "0.9" [] n = 50 -> "0.5" [] OTHER -> "0"

\* one list of assertions written as a strict JSON array and in the markdown
\* format the system message asks for
RenderJson(list) ==
    Content("array",
            [k \in 1 .. Len(list) |->
                JsonItem("object", Json("string", list[k].statement),
                         Json("boolean", list[k].isFactCheckable),
                         Num(list[k].modelConfidence), Num(list[k].userConfidence))],
            <<>>)
RenderMarkdown(list) ==
    Content("markdown", <<>>,
            MdText([k \in 1 .. Len(list) |->
                       [statement |-> list[k].statement,
                        checkable |-> IF list[k].isFactCheckable THEN "yes" ELSE "no",
                        model |-> NumText(list[k].modelConfidence),
                        user |-> NumText(list[k].userConfidence)]]))
Rendered ==
    SeqsUpTo([statement : {"X", "Y"}, isFactCheckable : BOOLEAN,
              modelConfidence : {100, 90}, userConfidence : {100}], MaxSegments)

ExtractParked ==
    /\ extractPc = "parked"
    /\ replies = <<>>
    /\ extractOutcome = <<>>
    /\ extracted = <<>>

\* enhanceBasedScore calls extractAssertions twice; replies holds the content
\* the endpoint has for each call
ExtractInit ==
    /\ extractPc = "ready"
    /\ replies \in {<<c, Content("other", <<>>, <<>>)>> : c \in Contents}
                   \cup {<<RenderJson(l), RenderMarkdown(l)>> : l \in Rendered}
    /\ extractOutcome = <<>>
    /\ extracted = <<>>

ExtractOutcomes == {"throw", "non2xx", "nocontent", "ok"}

\* one call of extractAssertions
extractAssertions(outcome) ==
    /\ extractPc = "ready"
    /\ Len(extracted) < Len(replies)
    /\ extractOutcome' = Append(extractOutcome, outcome)
    /\ extracted' = Append(extracted,
                           IF outcome = "ok"
                           THEN parseAssertionsFromResponse(replies[Len(extracted) + 1])
                           ELSE <<>>)
    /\ UNCHANGED <<extractPc, replies>>
    /\ ExtractOnly

ExtractNext == \E outcome \in ExtractOutcomes : extractAssertions(outcome)

(***************************************************************************)
(* completeWithRetry (src/src/index.ts).                                   *)
(***************************************************************************)
\* `const maxRetries = 5` of completeWithRetry
completeMaxRetries == 5

\* how a client.chat.completions.create call can end: with a response, or
\* throwing an Error with a message, or throwing a value that is no Error
Thrown(isError, message) == [ok |-> FALSE, isError |-> isError, v |-> message]
CreateOutcomes ==
    {[ok |-> TRUE, isError |-> FALSE, v |-> r] : r \in {"r1", "r2"}}
    \cup {Thrown(TRUE, "e1"), Thrown(TRUE, "e2"), Thrown(FALSE, "")}

\* new LLMError(`Failed after ${maxRetries} attempts: ${...}`)
LLMError(err) ==
    [name |-> "LLMError", after |-> completeMaxRetries,
     cause |-> IF err.isError THEN err.v ELSE "Unknown error"]

\* `const baseDelay = 1000`
baseDelay == 1000

\* `Math.random() * 0.3 + 0.85` in hundredths, Math.random() being in [0, 1)
Jitters == {85, 100, 114}

delayMsNextPower(a, jitter) ==
    IF (baseDelay * 2 ^ a * jitter) \div 100 < 32000
    THEN (baseDelay * 2 ^ a * jitter) \div 100 ELSE 32000

\* `Math.min(baseDelay * Math.pow(2, attempt - 1) * jitter, 32000)`, attempt
\* having been incremented for the failed call
delayMs(a, jitter) ==
    IF (baseDelay * 2 ^ (a - 1) * jitter) \div 100 < 32000
    THEN (baseDelay * 2 ^ (a - 1) * jitter) \div 100 ELSE 32000

RetriesExhaustedLate(a) == a > completeMaxRetries

\* `attempt >= maxRetries`
RetriesExhausted(a) == a >= completeMaxRetries

RetryParked ==
    /\ retryPc = "parked"
    /\ retryAttempt = 0
    /\ callLog = <<>>
    /\ retryResult = [name |-> "none"]
    /\ delays = <<>>

RetryInit ==
    /\ retryPc = "running"
    /\ retryAttempt = 0
    /\ callLog = <<>>
    /\ retryResult = [name |-> "none"]
    /\ delays = <<>>

\* one turn of the `while (true)` loop
completeWithRetry(outcome) ==
    /\ retryPc = "running"
    /\ callLog' = Append(callLog, outcome)
    /\ IF outcome.ok
       THEN /\ retryPc' = "returned"
            /\ retryResult' = [name |-> "value", v |-> outcome.v]
            /\ UNCHANGED <<retryAttempt, delays>>
       ELSE /\ retryAttempt' = retryAttempt + 1
            /\ IF RetriesExhausted(retryAttempt + 1)
               THEN /\ retryPc' = "thrown" /\ retryResult' = LLMError(outcome)
                    /\ UNCHANGED delays
               ELSE /\ \E jitter \in Jitters :
                         delays' = Append(delays, delayMs(retryAttempt + 1, jitter))
                    /\ UNCHANGED <<retryPc, retryResult>>
    /\ RetryOnly

RetryNext == \E outcome \in CreateOutcomes : completeWithRetry(outcome)

(***************************************************************************)
(* CORS headers: the router and handleCors of src/src/index.ts, the router *)
(* with handleCORS and getCorsHeaders of src/src/handleCors.ts.  Only the  *)
(* Access-Control-Allow-Origin header of the response is kept.             *)
(***************************************************************************)
NoHeader == "(no header)"
NoOrigin == "(no Origin)"
Origins == {NoOrigin, "http://localhost:5173", "https://basedorbiased.com", "https://evil.example"}
CorsVariants == {"index", "handleCORS", "getCorsHeaders"}
Methods == {"OPTIONS", "POST"}
Paths == {"/oauth/callback", "/oauth/refresh", "/process", "/", "/nope"}

allowedOrigins(v) ==
    CASE v = "index" ->
           <<"localhost:5173", "basedorbiased.com", "https://basedorbiased.vercel.app",
             "http://localhost:5173", "https://basedorbiased.com">>
      [] v = "handleCORS" ->
           <<"http://localhost:3000", "https://basedorbiased.com",
             "https://www.basedorbiased.com", "http://localhost:5173">>
      [] OTHER ->
           <<"http://localhost:5173", "http://localhost:8787",
             "https://bob-worker.affaan.workers.dev", "https://bob.affaanltd.com">>

Allowed(v, origin) == \E k \in 1 .. Len(allowedOrigins(v)) : allowedOrigins(v)[k] = origin

\* index.ts handleCors: `allowedOrigins.includes(origin!) ? origin! : allowedOrigins[0]`
handleCors(origin) ==
    IF Allowed("index", origin) THEN origin ELSE allowedOrigins("index")[1]

\* handleCors.ts getCorsHeaders: `allowedOrigins.includes(origin) ? origin : ''`
getCorsHeaders(origin) ==
    IF Allowed("getCorsHeaders", origin) THEN origin ELSE ""

\* handleCors.ts handleCORS: the header is set only for an allowed origin
handleCORS(origin, header) ==
    IF origin # NoOrigin /\ Allowed("handleCORS", origin) THEN origin ELSE header

\* `request.headers.get('Origin') || fallback`
OriginOr(origin, fallback) == IF origin = NoOrigin THEN fallback ELSE origin

\* index.ts router: the preflight answer is handleCors's; /oauth/callback and
\* /process echo the Origin; the other answers spread
\* `...handleCors(request, env).headers`, a Headers object, which has no own
\* properties to copy
IndexRouter(method, path, origin) ==
    CASE method = "OPTIONS" -> handleCors(origin)
      [] path = "/oauth/callback" -> OriginOr(origin, "https://basedorbiased.vercel.app")
      [] path = "/process" -> OriginOr(origin, "http://localhost:5173")
      [] OTHER -> NoHeader

CorsParked ==
    /\ corsPc = "parked"
    /\ corsVariant = "index"
    /\ corsRequest = [method |-> "POST", path |-> "/", origin |-> NoOrigin]
    /\ acao = NoHeader

CorsInit ==
    /\ corsPc = "ready"
    /\ corsVariant \in CorsVariants
    /\ corsRequest \in [method : Methods, path : Paths, origin : Origins]
    /\ acao = NoHeader

\* a request is answered
RouterFetch ==
    /\ corsPc = "ready"
    /\ corsPc' = "done"
    /\ acao' = CASE corsVariant = "index" ->
                      IndexRouter(corsRequest.method, corsRequest.path, corsRequest.origin)
                 [] corsVariant = "handleCORS" -> handleCORS(corsRequest.origin, NoHeader)
                 [] OTHER -> getCorsHeaders(corsRequest.origin)
    /\ UNCHANGED <<corsVariant, corsRequest>>
    /\ CorsOnly

CorsNext == RouterFetch

(***************************************************************************)
(* handleOauthRefresh (src/src/index.ts) with getRefreshToken and          *)
(* updateAccessToken, over the access_tokens row of the OAuth model.       *)
(***************************************************************************)
IdleRefresh == [pc |-> "idle", refreshToken |-> "", tokenReqs |-> 0, tokenOk |-> FALSE,
                data |-> "", wrote |-> FALSE, status |-> 0]

Refreshes == 1 .. MaxRefreshes

\* the row a callback stored before
StoredToken == [has |-> TRUE, access_token |-> "at1", refresh_token |-> "rt1"]

RefreshParked == refresh = [r \in Refreshes |-> IdleRefresh]

getRefreshTokenUnstored(storeOk) == IF storeOk THEN "rt0" ELSE ""

\* getRefreshToken: `.single()` with an error, or no refresh_token, is null ("")
getRefreshToken(storeOk) ==
    IF storeOk /\ tokenStore.has THEN tokenStore.refresh_token ELSE ""

\* handleOauthRefresh up to its fetch of the token endpoint
handleOauthRefresh(r, storeOk) ==
    /\ variant = "index"
    /\ refresh[r].pc = "idle"
    /\ refresh' = [refresh EXCEPT ![r] =
                     IF getRefreshToken(storeOk) = "" THEN Respond(@, 400)
                     ELSE [@ EXCEPT !.pc = "token", !.tokenReqs = @ + 1,
                                    !.refreshToken = getRefreshToken(storeOk)]]
    /\ UNCHANGED tokenStore
    /\ RefreshOnly

RefreshFailedOnThrowOnly(outcome) == outcome = "throw"

\* fetch throws, `!response.ok`, or response.json() throws
RefreshFailed(outcome) == outcome \notin {"ok", "empty"}

\* "empty" is a 2xx answer whose JSON body names no tokens
RefreshOutcomes == {"throw", "rejected", "nojson", "empty", "ok"}

\* data.access_token / data.refresh_token of the answer ("" is undefined)
RefreshData(r, outcome) == IF outcome = "ok" THEN ToString(r) ELSE ""

\* the token endpoint has answered the refresh request
RefreshToken(r, outcome) ==
    /\ refresh[r].pc = "token"
    /\ refresh' = [refresh EXCEPT ![r] =
                     IF RefreshFailed(outcome) THEN Respond(@, 500)
                     ELSE [@ EXCEPT !.pc = "update", !.data = RefreshData(r, outcome),
                                    !.tokenOk = outcome \in {"ok", "empty"}]]
    /\ UNCHANGED tokenStore
    /\ RefreshOnly

\* updateAccessToken and the answer: an update error is thrown (500)
updateAccessToken(r, updateOk) ==
    /\ refresh[r].pc = "update"
    /\ IF updateOk
       THEN /\ tokenStore' = IF tokenStore.has
                             THEN [has |-> TRUE,
                                   access_token |-> IF refresh[r].data = "" THEN ""
                                                    ELSE "new-at" \o refresh[r].data,
                                   refresh_token |-> IF refresh[r].data = "" THEN ""
                                                     ELSE "new-rt" \o refresh[r].data]
                             ELSE tokenStore
            /\ refresh' = [refresh EXCEPT ![r] = Respond([@ EXCEPT !.wrote = TRUE], 200)]
       ELSE /\ refresh' = [refresh EXCEPT ![r] = Respond(@, 500)]
            /\ UNCHANGED tokenStore
    /\ RefreshOnly

RefreshNext ==
    \/ \E r \in Refreshes, storeOk \in BOOLEAN : handleOauthRefresh(r, storeOk)
    \/ \E r \in Refreshes, outcome \in RefreshOutcomes : RefreshToken(r, outcome)
    \/ \E r \in Refreshes, updateOk \in BOOLEAN : updateAccessToken(r, updateOk)

(***************************************************************************)
(* Request routers: fetch of src/src/index.ts (router "index") and of      *)
(* src/src/handleCors.ts (router "handleCors"), and the copy of the latter *)
(* in src/unnamed/part_003 (router "part_003"), which answers 404 to every *)
(* GET.  A pathname is held as its segments, "/" being the empty sequence. *)
(***************************************************************************)
Routers == {"index", "handleCors", "part_003"}
RouteMethods == {"OPTIONS", "GET", "POST"}
PathSegments == {"/oauth", "/request_token", "/callback", "/refresh", "/process", "/tweet",
              "/grok", "/openai", "/x"}
Pathnames == SeqsUpTo(PathSegments, MaxPathParts)

IndexRoutesProcessFirst ==
    << [path |-> <<"/process">>, handler |-> "processHandler"],
       [path |-> <<"/oauth", "/request_token">>, handler |-> "handleOauthRequestToken"],
       [path |-> <<"/oauth", "/callback">>, handler |-> "handleOauthCallback"],
       [path |-> <<"/oauth", "/refresh">>, handler |-> "handleOauthRefresh"],
       [path |-> <<"/tweet">>, handler |-> "handleTweet"] >>

\* index.ts: the `path.includes(...)` tests in the order of the if-chain
IndexRoutes ==
    << [path |-> <<"/oauth", "/request_token">>, handler |-> "handleOauthRequestToken"],
       [path |-> <<"/oauth", "/callback">>, handler |-> "handleOauthCallback"],
       [path |-> <<"/oauth", "/refresh">>, handler |-> "handleOauthRefresh"],
       [path |-> <<"/process">>, handler |-> "processHandler"],
       [path |-> <<"/tweet">>, handler |-> "handleTweet"] >>

\* handleCors.ts: the `path === ...` tests in the order of the if-chain
CorsRoutes ==
    << [path |-> <<"/grok">>, handler |-> "callXApi"],
       [path |-> <<"/openai">>, handler |-> "callOpenAIApi"],
       [path |-> <<"/process">>, handler |-> "processHandler"] >>

\* the test of a route against the pathname
RouteMatches(which, route, path) ==
    IF which = "index" THEN includes(path, route.path) ELSE path = route.path

RoutesOf(which) == IF which = "index" THEN IndexRoutes ELSE CorsRoutes

\* the if / else-if chain: the first route whose test holds, then
\* `path === '/'`, then the 404; in part_003 `request.method === 'GET'`
\* comes before them all
Dispatch(which, method, path) ==
    LET routes == RoutesOf(which)
        hits == {k \in 1 .. Len(routes) : RouteMatches(which, routes[k], path)}
    IN IF which = "part_003" /\ method = "GET" THEN "notFound"
       ELSE IF hits # {} THEN routes[CHOOSE k \in hits : \A h \in hits : k <= h].handler
       ELSE IF path = <<>> THEN "root" ELSE "notFound"

RouteParked ==
    /\ routePc = "parked"
    /\ router = "index"
    /\ routeRequest = [method |-> "GET", path |-> <<>>]
    /\ ran = <<>>
    /\ routeCalls = 0
    /\ routeStatus = 0

RouteInit ==
    /\ routePc = "ready"
    /\ router \in Routers
    /\ routeRequest \in [method : RouteMethods, path : Pathnames]
    /\ ran = <<>>
    /\ routeCalls = 0
    /\ routeStatus = 0

\* fetch up to the call of the handler chosen: the preflight answer (200
\* from index.ts handleCors, 204 in handleCors.ts), the answers the router
\* makes itself, or the handler
RouterDispatch ==
    /\ routePc = "ready"
    /\ IF routeRequest.method = "OPTIONS"
       THEN /\ routePc' = "done"
            /\ routeStatus' = IF router = "index" THEN 200 ELSE 204
            /\ UNCHANGED ran
       ELSE LET handler == Dispatch(router, routeRequest.method, routeRequest.path)
            IN /\ ran' = Append(ran, handler)
               /\ routePc' = IF handler \in {"root", "notFound"} THEN "done" ELSE "handling"
               /\ routeStatus' = CASE handler = "root" -> 200
                                   [] handler = "notFound" -> 404
                                   [] OTHER -> 0
    /\ UNCHANGED <<router, routeRequest, routeCalls>>
    /\ RouteOnly

HandlerStatuses == {200, 302, 400, 401, 404, 500}

\* the handler chosen runs: it calls the store or an upstream service some
\* number of times and answers; what it throws the catch of index.ts
\* answers with 500
HandlerRuns(calls, threw, st) ==
    /\ routePc = "handling"
    /\ routePc' = "done"
    /\ routeCalls' = routeCalls + calls
    /\ routeStatus' = IF threw THEN 500 ELSE st
    /\ UNCHANGED <<router, routeRequest, ran>>
    /\ RouteOnly

RouteNext ==
    \/ RouterDispatch
    \/ \E calls \in 0 .. 1, threw \in BOOLEAN, st \in HandlerStatuses : HandlerRuns(calls, threw, st)

(***************************************************************************)
(* TwitterClient.request (src/src/twitterClient.ts, client "twitterClient",*)
(* and its copy in src/unnamed/part_002, client "part_002").  The          *)
(* recursive call is returned from inside the try without an await, so     *)
(* what it rejects with is not caught by the frame that made it.           *)
(***************************************************************************)
\* `const maxRetries = 3` of request
twitterMaxRetries == 3

TwitterClients == {"twitterClient", "part_002"}

\* how a fetch can end: 2xx with JSON, 2xx with another content type, 429,
\* another status whose error message holds 'rate limit', another status,
\* a thrown error whose message holds 'timeout', another thrown error
TwitterAnswers == {"ok", "notJson", "429", "rateLimitError", "error", "timeout", "throw"}

RetriesLeftInclusive(count) == count <= twitterMaxRetries

\* `retryCount < maxRetries`
RetriesLeft(count) == count < twitterMaxRetries

\* the error the catch block sees has a message it retries on
RetriedMessage(client, answer) ==
    \/ answer = "rateLimitError"
    \/ client = "part_002" /\ answer = "timeout"

\* the 429 branch and the catch branch, each with the same retryCount
RetriesRequest(client, answer, count) ==
    RetriesLeft(count) /\ (answer = "429" \/ RetriedMessage(client, answer))

TwitterParked ==
    /\ twPc = "parked"
    /\ twClient = "twitterClient"
    /\ retryCount = 0
    /\ twLog = <<>>

TwitterInit ==
    /\ twPc = "running"
    /\ twClient \in TwitterClients
    /\ retryCount = 0
    /\ twLog = <<>>

\* one frame of request: the fetch, its answer, and either the wait and the
\* recursive call or the end of the call
request(answer) ==
    /\ twPc = "running"
    /\ twLog' = Append(twLog, answer)
    /\ IF RetriesRequest(twClient, answer, retryCount)
       THEN retryCount' = retryCount + 1 /\ UNCHANGED twPc
       ELSE /\ twPc' = IF answer = "ok" THEN "resolved" ELSE "rejected"
            /\ UNCHANGED retryCount
    /\ UNCHANGED twClient
    /\ TwitterOnly

TwitterNext == \E answer \in TwitterAnswers : request(answer)

(***************************************************************************)
(* The parse loop of the /process copy that reads a JSON block out of the  *)
(* LLM reply (src/src/processHandler.ts, 513-548).  A reply is held as     *)
(* whether it opens and closes a ```json fence and what text it carries.   *)
(***************************************************************************)
\* a JSON text, and a parsed value, as far as the handler reads them
JsonText(kind, a, b) == [t |-> kind, v |-> 0, basedScore |-> a, engagementScore |-> b]

\* `let parsedXData = null`
NullData == JsonText("null", Undefined, Undefined)

\* the texts a reply may carry: the literal null, a number, an object with
\* its two scores, text that is not JSON, nothing
JsonTexts ==
    {JsonText(k, Undefined, Undefined) : k \in {"null", "num", "garbage", "empty"}}
    \cup {JsonText("object", a, b) : a \in FencedValues, b \in FencedValues}

LlmContents == [open : BOOLEAN, close : BOOLEAN, text : JsonTexts]

\* the block between the fences; without both fences the text from the
\* first '{' to the last '}', which is empty when there is no brace
jsonBlock(content) ==
    IF content.open /\ content.close THEN content.text
    ELSE IF content.text.t = "object" THEN content.text
    ELSE JsonText("empty", Undefined, Undefined)

\* JSON.parse throws a SyntaxError
JsonParseThrows(block) == block.t \in {"garbage", "empty"}

\* `while (parsedXData === null && retryCount < 5)`
LoopGoesOn == parsedXData.t = "null" /\ parseRetries < 5

LoopParked ==
    /\ loopPc = "parked"
    /\ llmContent = [open |-> FALSE, close |-> FALSE, text |-> NullData]
    /\ parsedXData = NullData
    /\ parseRetries = 0
    /\ parseCalls = 0
    /\ loopStatus = 0

\* the reply of callXApi has been read
LoopInit ==
    /\ loopPc = "loop"
    /\ llmContent \in LlmContents
    /\ parsedXData = NullData
    /\ parseRetries = 0
    /\ parseCalls = 0
    /\ loopStatus = 0

\* one turn of the loop: JSON.parse of the block; a throw is counted
ParseAttempt ==
    /\ loopPc = "loop"
    /\ LoopGoesOn
    /\ parseCalls < MaxParseCalls
    /\ parseCalls' = parseCalls + 1
    /\ IF JsonParseThrows(jsonBlock(llmContent))
       THEN parseRetries' = parseRetries + 1 /\ UNCHANGED parsedXData
       ELSE parsedXData' = jsonBlock(llmContent) /\ UNCHANGED parseRetries
    /\ UNCHANGED <<loopPc, llmContent, loopStatus>>
    /\ LoopOnly

\* after the loop: 500 when nothing was parsed; the other two responses are
\* made without a status
ParseRespond ==
    /\ loopPc = "loop"
    /\ ~LoopGoesOn
    /\ loopPc' = "responded"
    /\ loopStatus' = IF parsedXData.t = "null" THEN 500 ELSE 200
    /\ UNCHANGED <<llmContent, parsedXData, parseRetries, parseCalls>>
    /\ LoopOnly

LoopNext == ParseAttempt \/ ParseRespond

MoreParked == RouteParked /\ TwitterParked /\ LoopParked

LaterParked ==
    FactParked /\ ExtractParked /\ RetryParked /\ CorsParked /\ RefreshParked /\ MoreParked

Init == ClockInit /\ RateInit /\ OAuthInit /\ NormParked /\ ProcParked /\ LaterParked

InitNorm ==
    ClockInit /\ RateInit /\ OAuthInit /\ variant = "index" /\ NormInit /\ ProcParked /\ LaterParked

InitProc ==
    ClockInit /\ RateInit /\ OAuthInit /\ variant = "index" /\ NormParked /\ ProcInit /\ LaterParked

SpecProc == InitProc /\ [][ProcNext]_vars

SpecNorm == InitNorm /\ [][NormNext]_vars

\* the rate limiter is the same in every deployment
InitRate == Init /\ variant = "index"

SpecRate == InitRate /\ [][RateNext]_vars

SpecOAuth == Init /\ [][OAuthNext]_vars

InitFact ==
    ClockInit /\ RateInit /\ OAuthInit /\ variant = "index" /\ NormParked /\ ProcParked /\ FactInit
    /\ ExtractParked /\ RetryParked /\ CorsParked /\ RefreshParked /\ MoreParked

SpecFact == InitFact /\ [][FactNext]_vars

InitExtract ==
    ClockInit /\ RateInit /\ OAuthInit /\ variant = "index" /\ NormParked /\ ProcParked /\ FactParked
    /\ ExtractInit /\ RetryParked /\ CorsParked /\ RefreshParked /\ MoreParked

SpecExtract == InitExtract /\ [][ExtractNext]_vars

InitRetry ==
    ClockInit /\ RateInit /\ OAuthInit /\ variant = "index" /\ NormParked /\ ProcParked /\ FactParked
    /\ ExtractParked /\ RetryInit /\ CorsParked /\ RefreshParked /\ MoreParked

SpecRetry == InitRetry /\ [][RetryNext]_vars

InitCors ==
    ClockInit /\ RateInit /\ OAuthInit /\ variant = "index" /\ NormParked /\ ProcParked /\ FactParked
    /\ ExtractParked /\ RetryParked /\ CorsInit /\ RefreshParked /\ MoreParked

SpecCors == InitCors /\ [][CorsNext]_vars

\* the refresh handler, with or without a token record stored before
InitRefresh ==
    /\ ClockInit /\ RateInit /\ NormParked /\ ProcParked /\ LaterParked
    /\ variant = "index" /\ issued = 0 /\ verifiers = {} /\ authUrls = {}
    /\ req = [r \in Reqs |-> IdleReq]
    /\ tokenStore \in {NoToken, StoredToken}

SpecRefresh == InitRefresh /\ [][RefreshNext]_vars

\* the OAuth handlers together: INIT, callbacks and a refresh request
FlowNext ==
    \/ OAuthNext
    \/ \E storeOk \in BOOLEAN : handleOauthRefresh(1, storeOk)
    \/ \E outcome \in RefreshOutcomes : RefreshToken(1, outcome)
    \/ \E updateOk \in BOOLEAN : updateAccessToken(1, updateOk)

SpecFlow == Init /\ [][FlowNext]_vars

InitRoute ==
    ClockInit /\ RateInit /\ OAuthInit /\ variant = "index" /\ NormParked /\ ProcParked /\ FactParked
    /\ ExtractParked /\ RetryParked /\ CorsParked /\ RefreshParked /\ RouteInit /\ TwitterParked /\ LoopParked

SpecRoute == InitRoute /\ [][RouteNext]_vars

InitTwitter ==
    ClockInit /\ RateInit /\ OAuthInit /\ variant = "index" /\ NormParked /\ ProcParked /\ FactParked
    /\ ExtractParked /\ RetryParked /\ CorsParked /\ RefreshParked /\ RouteParked /\ TwitterInit /\ LoopParked

SpecTwitter == InitTwitter /\ [][TwitterNext]_vars

InitLoop ==
    ClockInit /\ RateInit /\ OAuthInit /\ variant = "index" /\ NormParked /\ ProcParked /\ FactParked
    /\ ExtractParked /\ RetryParked /\ CorsParked /\ RefreshParked /\ RouteParked /\ TwitterParked /\ LoopInit

SpecLoop == InitLoop /\ [][LoopNext]_vars

(***************************************************************************)
(* C1: within one window of a key the first 300 isRateLimited calls return *)
(* false and the 301st and every later one return true, and the stored     *)
(* count of a key never exceeds 300.                                       *)
(***************************************************************************)
C1_WindowLimit ==
    /\ \A k \in Keys : rateLimits[k].count <= 300
    /\ lastCall.made => (lastCall.ret <=> windowCalls[lastCall.key] > 300)

\* the 301st call of a window was made and rejected
C1_Witness ==
    /\ lastCall.made
    /\ lastCall.ret
    /\ windowCalls[lastCall.key] = 301

(***************************************************************************)
(* C2: a callback that lacks code or state, or whose state matches no      *)
(* stored record, is answered 400, sends nothing to the token endpoint and *)
(* writes no token record.                                                 *)
(***************************************************************************)
C2_CallbackRejects ==
    \A r \in Reqs :
        (/\ req[r].pc = "done"
         /\ MissingParams(req[r].code, req[r].state) \/ req[r].rowSeen = "absent")
        => (req[r].status = 400 /\ req[r].tokenReqs = 0 /\ ~req[r].wrote)

(***************************************************************************)
(* C3: a callback whose state record exists but has expired is rejected    *)
(* with a 400-class status and its code_verifier is not sent to the token  *)
(* endpoint.                                                               *)
(***************************************************************************)
C3_ExpiredRejected ==
    \A r \in Reqs :
        req[r].rowSeen = "expired"
        => (/\ req[r].tokenReqs = 0
            /\ req[r].pc = "done" => req[r].status \in 400 .. 499)

(***************************************************************************)
(* C4: the state record is single-use: after a callback has exchanged the  *)
(* code with it (token endpoint 2xx) the record is gone from the store,    *)
(* and a later callback with the same state is rejected with 400 and sends *)
(* nothing to the token endpoint.                                          *)
(***************************************************************************)
C4_SingleUse ==
    \A r \in Reqs :
        /\ (req[r].pc = "done" /\ req[r].tokenOk) => RowsOf(req[r].state) = {}
        /\ req[r].afterUse
           => (/\ req[r].tokenReqs = 0
               /\ req[r].pc = "done" => req[r].status = 400)

\* x is a number within [lo, hi] (hundredths)
NumIn(x, lo, hi) == x.t = "num" /\ lo <= x.v /\ x.v <= hi

(***************************************************************************)
(* C5: for every JSON-shaped input validateResponse returns an object with *)
(* all eight fields and all four score_components present and non-null,    *)
(* and every field absent from the input equals its default.               *)
(***************************************************************************)
C5_FullyPopulated ==
    normPc = "validated" =>
        /\ \A f \in ResultFields : result[f].t \notin {"undefined", "null"}
        /\ result.score_components.t = "obj"
        /\ \A g \in ScoreFields : result.score_components[g].t \notin {"undefined", "null"}
        /\ \A f \in ResultFields :
              analysis[f].t = "undefined" => result[f] = defaultResult[f]

(***************************************************************************)
(* C6: whatever the input confidence, the returned confidence is a number  *)
(* in [0,1], and max(0, min(1, x)) when the input x is a number.           *)
(***************************************************************************)
C6_ConfidenceClamped ==
    normPc = "validated" =>
        /\ NumIn(result.confidence, 0, Units(1))
        /\ analysis.confidence.t = "num" =>
              result.confidence =
                  Num(IF analysis.confidence.v < 0 THEN 0
                      ELSE IF analysis.confidence.v > Units(1) THEN Units(1)
                      ELSE analysis.confidence.v)

(***************************************************************************)
(* C7: with based_score absent or falsy (0, null) and conviction a number  *)
(* other than 0, the returned based_score is conviction x 100; a based     *)
(* score that is a number other than 0 is returned unchanged; with both    *)
(* absent or 0 the returned based_score is 0.                              *)
(***************************************************************************)
C7_BasedScoreDerived ==
    normPc = "validated" =>
        LET bs == analysis.based_score
            cv == analysis.conviction
        IN /\ (bs \in {Undefined, Null, Num(0)} /\ cv.t = "num" /\ cv.v # 0)
                 => result.based_score = Num(cv.v * 100)
           /\ (bs.t = "num" /\ bs.v # 0) => result.based_score = bs
           /\ (bs \in {Undefined, Num(0)} /\ cv \in {Undefined, Num(0)})
                 => result.based_score = Num(0)

\* {conviction: 0.8} without based_score was normalized to based_score 80
C7_Witness ==
    /\ normPc = "validated"
    /\ analysis.conviction = Num(80)
    /\ analysis.based_score = Undefined
    /\ result.based_score = Num(Units(80))

(***************************************************************************)
(* C10: every result of classifyUser has conviction in [0,1], based_score  *)
(* in [0,100] and every score_components value in [0,1].                   *)
(***************************************************************************)
C10_ClassifiedInRange ==
    normPc = "classified" =>
        /\ NumIn(result.conviction, 0, Units(1))
        /\ NumIn(result.based_score, 0, Units(100))
        /\ result.score_components.t = "obj"
        /\ \A g \in ScoreFields : NumIn(result.score_components[g], 0, Units(1))

(***************************************************************************)
(* C8: validateScore returns 50 for every input that is not a number, is   *)
(* NaN, is below 0 or above 100, and the input itself for every number in  *)
(* [0,100]; getBasedScore validates each of the four scores on its own.    *)
(***************************************************************************)
C8_ValidateScore ==
    (procPc = "done" /\ procVariant = "based" /\ procResponse.via = "ok")
    => \A f \in BasedScoreFields :
          procResponse.body[f] =
              IF NumIn(llmResult[f], 0, Units(100)) THEN llmResult[f] ELSE Num(Units(50))

\* one score was out of range and became 50, the scores 0, 100 and 50 beside
\* it were returned as they were
C8_Witness ==
    /\ procPc = "done" /\ procVariant = "based" /\ procResponse.via = "ok"
    /\ llmResult.based_score = Num(Units(100) + 1)
    /\ procResponse.body.based_score = Num(Units(50))
    /\ llmResult.sincerity_score = Num(0)
    /\ procResponse.body.sincerity_score = Num(0)
    /\ llmResult.truthfulness_score = Num(Units(100))
    /\ procResponse.body.truthfulness_score = Num(Units(100))

(***************************************************************************)
(* C9: every numeric score in the body of a 200 response of POST /process  *)
(* lies in [0,100], whatever the LLM replied.                              *)
(***************************************************************************)
C9_ScoresInRange ==
    (procPc = "done" /\ procResponse.status = 200)
    => \A f \in BodyScores :
          procResponse.body[f].t = "num" => NumIn(procResponse.body[f], 0, Units(100))

(***************************************************************************)
(* C11: calculateEnhancedTruthfulnessScore returns 50 for an empty list of *)
(* fact checks and otherwise round(S / n), S being the sum of              *)
(* confidence * 100 * w over the true checks, w = 1.2 when the statement   *)
(* is a substring of a mainstream belief and 0.8 otherwise.  The score t   *)
(* is the rounding of S / n iff t - 1/2 <= S / n < t + 1/2; S is held in   *)
(* tenths.                                                                 *)
(***************************************************************************)
RECURSIVE C11_Sum(_)
C11_Sum(k) ==
    IF k = 0 THEN 0
    ELSE C11_Sum(k - 1)
         + (IF ~factChecks[k].isTrue THEN 0
            ELSE IF \E b \in 1 .. Len(mainstream) :
                        includes(mainstream[b], factChecks[k].statement)
                 THEN factChecks[k].confidence * 12
                 ELSE factChecks[k].confidence * 8)

C11_Truthfulness ==
    factPc = "done" =>
        LET n == Len(factChecks)
            S == C11_Sum(n)
        IN IF n = 0 THEN truthfulness = 50
           ELSE /\ 10 * n * (2 * truthfulness - 1) <= 2 * S
                /\ 2 * S < 10 * n * (2 * truthfulness + 1)

\* one true mainstream check with confidence 1.0 gives 120
C11_Witness ==
    /\ factPc = "done"
    /\ Len(factChecks) = 1
    /\ factChecks[1].isTrue
    /\ factChecks[1].confidence = 100
    /\ truthfulness = 120

(***************************************************************************)
(* C12: the truthfulness_score enhanceBasedScore returns lies in [0,100].  *)
(***************************************************************************)
C12_TruthfulnessInRange ==
    factPc = "done" => truthfulness >= 0 /\ truthfulness <= 100

(***************************************************************************)
(* C13: parseFactCheckFromResponse returns a result only if the reply has  *)
(* a determination line, a confidence line, a non-empty explanation and a  *)
(* non-empty source bullet; otherwise it returns null, the assertion gets  *)
(* no entry in the results and no further request is made for it.  Every   *)
(* returned confidence is in [0,1], and 0.5 when the confidence text is    *)
(* not a number.                                                           *)
(***************************************************************************)
C13_ReplyHas(labels) ==
    \E k \in 1 .. Len(factReply.content) :
        LET line == factReply.content[k]
        IN ~line.dash /\ line.parts[1] \in labels /\ Len(line.parts) >= 2
           /\ (line.parts[1] = "Explanation" => line.parts[2] # "")

C13_Parsed ==
    factReply.at > 0 =>
        /\ factParsed.t # "null" =>
              /\ C13_ReplyHas({"Determination", "determination"})
              /\ C13_ReplyHas({"Confidence"})
              /\ C13_ReplyHas({"Explanation"})
              /\ \E k \in 1 .. Len(factReply.content) :
                    factReply.content[k].dash /\ factReply.content[k].parts # <<"">>
              /\ factParsed.confidence >= 0 /\ factParsed.confidence <= 100
              /\ (\E k \in 1 .. Len(factReply.content) :
                     factReply.content[k].parts = <<"Confidence", "high">>)
                    => factParsed.confidence = 50
        /\ factParsed.t = "null" =>
              \A k \in 1 .. Len(factChecks) : factChecks[k].of # factReply.at

\* the assertions factCheckAssertions is done with
C13_Handled ==
    {i \in factCheckable : Cardinality({j \in factCheckable : j <= i}) <= factIdx}

C13_ParseOrDrop ==
    /\ []C13_Parsed
    /\ [][\A i \in C13_Handled : factRequests'[i] = factRequests[i]]_vars

\* a reply without a source bullet was parsed and dropped
C13_Witness ==
    /\ factPc = "done"
    /\ factReply.at > 0
    /\ factRequests[factReply.at] = 1
    /\ Len(factReply.content) = 3
    /\ \A k \in 1 .. 3 : ~factReply.content[k].dash /\ factReply.content[k].parts[2] # ""
    /\ factParsed.t = "null"

(***************************************************************************)
(* C14: parseAssertionsFromResponse uses the JSON parse for a JSON array   *)
(* and the markdown parser otherwise; in the markdown path a block with a  *)
(* statement gets modelConfidence 0.5, userConfidence 0.5 and              *)
(* isFactCheckable false for the lines it lacks, and a block without a     *)
(* statement yields no assertion.                                          *)
(***************************************************************************)
C14_Starts(lines) == {i \in 1 .. Len(lines) : lines[i].label = "Assertion"}
C14_Has(lines, i, label) ==
    \E j \in i + 1 .. Len(lines) :
        /\ lines[j].label = label
        /\ \A m \in i + 1 .. j : lines[m].label # "Assertion"
C14_Nth(lines, k) ==
    CHOOSE i \in C14_Starts(lines) : Cardinality({j \in C14_Starts(lines) : j <= i}) = k
C14_ItemValid(item) ==
    /\ item.t = "object"
    /\ item.statement.t = "string"
    /\ item.isFactCheckable.t = "boolean"
    /\ \A c \in {item.modelConfidence, item.userConfidence} :
          c.t = "num" /\ c.v >= 0 /\ c.v <= 100

C14_JsonFirstThenDefaults ==
    \A n \in 1 .. Len(extracted) :
        LET lines == replies[n].lines
            out == extracted[n]
        IN extractOutcome[n] = "ok" =>
              /\ replies[n].kind = "array" =>
                    Len(out) = Len(SelectSeq(replies[n].items, C14_ItemValid))
              /\ replies[n].kind # "array" =>
                    /\ Len(out) <= Cardinality({i \in C14_Starts(lines) :
                                                   C14_Has(lines, i, "Statement")})
                    /\ (\A i \in 1 .. Len(lines) :
                           /\ lines[i].value # "5"
                           /\ lines[i].label = "Assertion" => C14_Has(lines, i, "Statement"))
                          => /\ Len(out) = Cardinality(C14_Starts(lines))
                             /\ \A k \in 1 .. Len(out) :
                                   LET i == C14_Nth(lines, k)
                                   IN /\ ~C14_Has(lines, i, "Model Confidence")
                                            => out[k].modelConfidence = 50
                                      /\ ~C14_Has(lines, i, "User Confidence")
                                            => out[k].userConfidence = 50
                                      /\ ~C14_Has(lines, i, "Fact-checkable")
                                            => ~out[k].isFactCheckable

(***************************************************************************)
(* C15: an item that fails validation is dropped and the valid items       *)
(* before and after it are returned in their order, in the JSON and in the *)
(* markdown path; extractAssertions returns the empty list on a transport  *)
(* or format failure; every returned confidence is in [0,1].               *)
(***************************************************************************)
C15_Statements(seq) == [k \in 1 .. Len(seq) |-> seq[k].statement]
C15_BlockValid(lines, i) ==
    /\ lines[i].label = "Statement"
    /\ \A j \in i + 1 .. Len(lines) :
          (\A m \in i + 1 .. j : lines[m].label # "Assertion") => lines[j].value # "5"

C16_SameInBothFormats ==
    (/\ Len(extracted) = 2
     /\ extractOutcome = <<"ok", "ok">>
     /\ \E l \in Rendered : replies = <<RenderJson(l), RenderMarkdown(l)>>)
        => extracted[1] = extracted[2]

(***************************************************************************)
(* C17: completeWithRetry makes at most 5 LLM calls, returns the result of *)
(* the first call that succeeds and calls no more after it, and when all 5 *)
(* calls fail throws an LLMError carrying the message of the last error.   *)
(***************************************************************************)
C17_RetryThenThrow ==
    LET n == Len(callLog)
    IN /\ n <= 5
       /\ \A k \in 1 .. n - 1 : ~callLog[k].ok
       /\ retryPc = "returned" <=> (n >= 1 /\ callLog[n].ok)
       /\ retryPc = "returned" => retryResult = [name |-> "value", v |-> callLog[n].v]
       /\ retryPc = "thrown" <=> (n = 5 /\ ~callLog[n].ok)
       /\ retryPc = "thrown" =>
             /\ retryResult.name = "LLMError"
             /\ callLog[n].isError => retryResult.cause = callLog[n].v

\* five failed calls, the last with another message than the first
C17_Witness ==
    /\ retryPc = "thrown"
    /\ callLog[1].v = "e1"
    /\ callLog[5].v = "e2"
    /\ retryResult.cause = "e2"

(***************************************************************************)
(* C18: POST /process answers 400 to a request without its access token or *)
(* Bearer header, 404 to an upstream Twitter failure and 500 to every      *)
(* other failure, each with an `error` body; no `error` body is sent with  *)
(* a 2xx status.                                                           *)
(***************************************************************************)
C18_StatusByFailureClass ==
    procPc = "done" =>
        /\ procResponse.via \in {"noauth", "notoken"} =>
              procResponse.error /\ procResponse.status = 400
        /\ procResponse.via \in {"twitter", "notweets"} =>
              procResponse.error /\ procResponse.status = 404
        /\ procResponse.via \in {"llm", "throw", "unparsable"} =>
              procResponse.error /\ procResponse.status = 500
        /\ procResponse.error => procResponse.status \notin 200 .. 299

(***************************************************************************)
(* C19: every response carries an Access-Control-Allow-Origin header, and  *)
(* for an Origin that is absent or not in the allow-list its value is an   *)
(* origin of the allow-list: not the request's origin, not the empty       *)
(* string.                                                                 *)
(***************************************************************************)
C19_AllowOriginOnEveryResponse ==
    corsPc = "done" =>
        /\ acao # NoHeader
        /\ ~Allowed(corsVariant, corsRequest.origin) =>
              acao # corsRequest.origin /\ acao # "" /\ Allowed(corsVariant, acao)

(***************************************************************************)
(* C20: handleOauthRefresh writes the stored token record only after the   *)
(* token endpoint answered the refresh request with 2xx; in every other    *)
(* outcome the record stays as it was; without a stored refresh token the  *)
(* handler answers 400 and does not call the token endpoint.               *)
(***************************************************************************)
C20_RefreshNoToken ==
    \A r \in Refreshes :
        /\ refresh[r].wrote => refresh[r].tokenOk
        /\ (refresh[r].pc = "done" /\ refresh[r].refreshToken = "")
              => refresh[r].status = 400 /\ refresh[r].tokenReqs = 0
        /\ refresh[r].tokenReqs <= 1

C20_WriteOnlyAfter2xx ==
    /\ []C20_RefreshNoToken
    /\ [][tokenStore' # tokenStore =>
             \E r \in Refreshes : refresh[r].tokenOk /\ refresh[r].pc = "update"
                             /\ refresh'[r].wrote]_vars

\* one refresh rewrote the record, another was rejected by the token
\* endpoint and left it alone
C20_Witness ==
    /\ refresh[1].wrote /\ refresh[1].status = 200
    /\ refresh[2].pc = "done" /\ refresh[2].status = 500 /\ refresh[2].tokenReqs = 1
    /\ ~refresh[2].tokenOk
    /\ tokenStore.access_token = "new-at1"

(***************************************************************************)
(* C21: of two callback requests that present the same state, however      *)
(* their steps interleave, at most one sends an authorization_code         *)
(* exchange with that state's code_verifier to the token endpoint.         *)
(***************************************************************************)
C21_OneExchangePerState ==
    \A r \in Reqs : \A o \in Reqs \ {r} :
        (req[r].state = req[o].state /\ req[r].codeVerifier # "")
        => ~(req[r].tokenReqs > 0 /\ req[o].tokenReqs > 0)

(***************************************************************************)
(* C22: in completeWithRetry, attempts numbered from 0, the delay slept    *)
(* after failed attempt a (a = 0..3) is min(1000 ms * 2^a * j, 32000 ms)   *)
(* with j in [0.85, 1.15]; no delay exceeds 32 s and none is slept after   *)
(* the 5th failed attempt.                                                 *)
(***************************************************************************)
C22_Failed == Cardinality({k \in 1 .. Len(callLog) : ~callLog[k].ok})

C22_BackoffDelays ==
    /\ Len(delays) = IF C22_Failed < 5 THEN C22_Failed ELSE 4
    /\ \A a \in 0 .. Len(delays) - 1 :
          /\ ~callLog[a + 1].ok
          /\ delays[a + 1] <= 32000
          /\ \E j \in 85 .. 115 :
                delays[a + 1] = IF 10 * 2 ^ a * j < 32000 THEN 10 * 2 ^ a * j ELSE 32000

\* five failed calls with four delays between them, the last the longest
\* the jitter allows below its upper end
C22_Witness ==
    /\ retryPc = "thrown"
    /\ Len(delays) = 4
    /\ delays[1] = 850
    /\ delays[4] = 9120

(***************************************************************************)
(* C23: retryFetch issues at most 3 fetches for one call and none after a  *)
(* response with an ok status; between consecutive attempts it waits       *)
(* 2^attempt seconds (1 s, then 2 s); after 3 failed attempts it throws    *)
(* without waiting again after the final attempt.                          *)
(***************************************************************************)
C23_AtMostThreeFetches ==
    \A i \in 1 .. Len(assertions) :
        /\ factRequests[i] <= 3
        /\ Len(factWaits[i]) <= 2
        /\ Len(factWaits[i]) <= factRequests[i]
        /\ Len(factWaits[i]) >= factRequests[i] - 1
        /\ \A k \in 1 .. Len(factWaits[i]) : factWaits[i][k] = 2 ^ (k - 1) * 1000

(***************************************************************************)
(* C24: factCheckAssertions calls the fact-check endpoint only for         *)
(* assertions with isFactCheckable true, one at a time in input order; a   *)
(* failure for one assertion skips only that assertion; the result list is *)
(* an order-preserving sub-list of the fact-checkable assertions with at   *)
(* most one result per assertion, each carrying its assertion's statement. *)
(***************************************************************************)
C24_Checkable == {i \in 1 .. Len(assertions) : assertions[i].isFactCheckable}

C24_OrderedSublist ==
    /\ \A i \in 1 .. Len(assertions) : factRequests[i] > 0 => i \in C24_Checkable
    /\ \A i \in C24_Checkable : \A j \in C24_Checkable :
          (i < j /\ factRequests[j] > 0)
          => (factRequests[i] > 0 /\ Cardinality({h \in C24_Checkable : h <= i}) <= factIdx)
    /\ factPc = "done" => \A i \in C24_Checkable : factRequests[i] > 0
    /\ \A k \in 1 .. Len(factChecks) :
          /\ factChecks[k].of \in C24_Checkable
          /\ factChecks[k].statement = assertions[factChecks[k].of].statement
          /\ factRequests[factChecks[k].of] > 0
          /\ \A h \in 1 .. k - 1 : factChecks[h].of < factChecks[k].of

\* the first of two fact-checkable assertions ran out of retries, the second
\* was checked all the same and has the only result
C24_Witness ==
    /\ factPc = "done"
    /\ Len(assertions) = 2
    /\ factRequests = <<3, 1>>
    /\ Len(factChecks) = 1
    /\ factChecks[1].of = 2

(***************************************************************************)
(* C25: the router dispatches every non-OPTIONS request to exactly one     *)
(* handler, chosen by the first path test that matches in the fixed order  *)
(* (request_token, callback, refresh, process, tweet, root), and answers   *)
(* 404 when none matches; an OPTIONS request is answered as a CORS         *)
(* preflight before any routing: no handler runs and no store or upstream  *)
(* call is made for it.                                                    *)
(***************************************************************************)
C25_Has(a, b) == includes(routeRequest.path, <<a, b>>)

\* the handler the fixed order of the claim chooses
C25_FirstMatch ==
    CASE C25_Has("/oauth", "/request_token") -> "handleOauthRequestToken"
      [] C25_Has("/oauth", "/callback") -> "handleOauthCallback"
      [] C25_Has("/oauth", "/refresh") -> "handleOauthRefresh"
      [] includes(routeRequest.path, <<"/process">>) -> "processHandler"
      [] includes(routeRequest.path, <<"/tweet">>) -> "handleTweet"
      [] routeRequest.path = <<>> -> "root"
      [] OTHER -> "notFound"

\* the handler the chain of handleCors.ts and of its copy chooses
C25_FirstMatchCors ==
    CASE router = "part_003" /\ routeRequest.method = "GET" -> "notFound"
      [] routeRequest.path = <<"/grok">> -> "callXApi"
      [] routeRequest.path = <<"/openai">> -> "callOpenAIApi"
      [] routeRequest.path = <<"/process">> -> "processHandler"
      [] routeRequest.path = <<>> -> "root"
      [] OTHER -> "notFound"

C25_Preflight ==
    routeRequest.method = "OPTIONS"
    => (ran = <<>> /\ routeCalls = 0 /\ routePc \in {"ready", "done"})

C25_OneHandler(chosen) ==
    (routeRequest.method # "OPTIONS" /\ routePc # "ready")
    => (/\ ran = <<chosen>>
        /\ chosen = "notFound" => (routePc = "done" /\ routeStatus = 404 /\ routeCalls = 0))

\* the claim as stated, for every router
C25_DispatchInFixedOrder == C25_Preflight /\ C25_OneHandler(C25_FirstMatch)

\* the claim with each router's own order of tests
C25_DispatchInRouterOrder ==
    /\ C25_Preflight
    /\ C25_OneHandler(IF router = "index" THEN C25_FirstMatch ELSE C25_FirstMatchCors)

\* a pathname that holds both /process and /oauth/callback went to the
\* callback handler, which answered after a call
C25_Witness ==
    /\ router = "index"
    /\ routeRequest.path = <<"/process", "/oauth", "/callback">>
    /\ ran = <<"handleOauthCallback">>
    /\ routePc = "done"
    /\ routeCalls = 1

(***************************************************************************)
(* C26: the steps of the OAuth flow occur in the order INIT, callback      *)
(* exchange, refresh: the authorization URL for a state is issued only     *)
(* after the record {state, code_verifier, expiresAt = now + 10 min} was   *)
(* stored (a store failure yields an error and no redirect); an exchange   *)
(* uses only a code_verifier stored by an earlier INIT for the presented   *)
(* state; a refresh request reaches the token endpoint only after an       *)
(* exchange has stored a token record.                                     *)
(***************************************************************************)
C26_ExchangeAfterInit ==
    \A r \in Reqs :
        req[r].tokenReqs > 0
        => \E n \in 1 .. issued :
              /\ StateName(n) \in authUrls
              /\ req[r].state = StateName(n)
              /\ req[r].codeVerifier = VerifierName(n)

C26_RefreshAfterExchange ==
    \A r \in Refreshes :
        refresh[r].tokenReqs > 0 => \E o \in Reqs : req[o].wrote /\ req[o].tokenOk

C26_UrlAfterStore ==
    /\ \A s \in authUrls' \ authUrls :
          \E v \in verifiers' \ verifiers :
              v.state = s /\ v.expires_at = now + 10 * 60 * 1000
    /\ (issued' # issued /\ verifiers' = verifiers) => authUrls' = authUrls

C26_FlowOrder ==
    /\ [](C26_ExchangeAfterInit /\ C26_RefreshAfterExchange)
    /\ [][C26_UrlAfterStore]_vars

\* INIT, then an exchange that stored the token record, then a refresh that
\* reached the token endpoint and rewrote the record
C26_Witness ==
    /\ \E o \in Reqs : req[o].wrote /\ req[o].state = StateName(1)
    /\ refresh[1].tokenReqs = 1
    /\ refresh[1].wrote
    /\ now > 0

(***************************************************************************)
(* C27: for every sequence of upstream answers one call of                 *)
(* TwitterClient.request sends at most 4 HTTP requests (the first plus     *)
(* maxRetries = 3 retries, those of the 429 branch and of the catch branch *)
(* counted together) and then resolves or rejects; a 429 answer to the 4th *)
(* request is surfaced to the caller as an error, not retried.             *)
(***************************************************************************)
C27_AtMostFourRequests ==
    /\ Len(twLog) <= 4
    /\ twPc = "running" => Len(twLog) <= 3
    /\ Len(twLog) = 4 => twPc \in {"resolved", "rejected"}
    /\ (Len(twLog) = 4 /\ twLog[4] = "429") => twPc = "rejected"
    /\ twPc = "resolved" <=> (twLog # <<>> /\ twLog[Len(twLog)] = "ok")

\* retries from both branches, then a 429 answer to the 4th request
C27_Witness ==
    /\ twLog = <<"429", "rateLimitError", "429", "429">>
    /\ twPc = "rejected"

(***************************************************************************)
(* C28: in the /process copy that parses a JSON block out of the LLM       *)
(* reply, the parse loop makes at most 5 parse attempts and then the       *)
(* handler responds (500 when nothing was parsed), for every reply         *)
(* content, a reply whose JSON block is the literal null included.         *)
(***************************************************************************)
C28_AtMostFiveParses ==
    /\ parseCalls <= 5
    /\ (loopPc = "responded" /\ parsedXData.t = "null") => loopStatus = 500

(***************************************************************************)
(* C29: IdeologyClassifier.classifyUser never rejects: when the LLM        *)
(* endpoint answers non-2xx, the network call throws, the reply lacks      *)
(* choices[0].message.content or the content is not valid JSON, it returns *)
(* the normalized default result with category 'unknown' and confidence 0, *)
(* and it makes exactly one LLM request per call (no retry).               *)
(***************************************************************************)
C29_DefaultOnFailure ==
    (normPc = "classified" /\ llmReply \in {"throw", "non2xx", "nocontent", "badjson"})
    => (/\ result = defaultResult
        /\ result.category = Str(0)
        /\ result.confidence = Num(0))

\* the claim as stated
C29_OneRequestPerCall ==
    /\ C29_DefaultOnFailure
    /\ normPc = "classified" => llmRequests = 1

\* one request per call that is not answered from the canned result
C29_OneRequestUnlessFake ==
    /\ C29_DefaultOnFailure
    /\ normPc = "classified" =>
          /\ llmRequests = IF llmReply = "none" THEN 0 ELSE 1
          /\ llmReply = "none" => result = getFakeApiResponse

\* content that is not JSON was answered with the default result after one
\* request, whatever the reply would have decoded to
C29_Witness ==
    /\ normPc = "classified"
    /\ llmReply = "badjson"
    /\ llmRequests = 1
    /\ analysis.category = Str(1)
    /\ result = defaultResult

(***************************************************************************)
(* C30: once the clock is strictly past a key's resetAt the next           *)
(* isRateLimited(key) returns false and starts a new window with count 1   *)
(* and resetAt = now + 15 min, however many calls were rejected before (at *)
(* now == resetAt the old window still applies); isRateLimited(key)        *)
(* returns true exactly when getRateLimitRemaining(key) evaluated just     *)
(* before it is 0; rejected calls and calls for other keys leave the key's *)
(* entry unchanged.                                                        *)
(***************************************************************************)
C30_Call ==
    LET k == lastCall'.key
        info == rateLimits[k]
    IN /\ lastCall'.made
       /\ (info.has /\ now > info.resetAt)
             => (/\ ~lastCall'.ret
                 /\ rateLimits'[k] = [has |-> TRUE, count |-> 1, resetAt |-> now + 900000])
       /\ (info.has /\ now <= info.resetAt)
             => (/\ rateLimits'[k].resetAt = info.resetAt
                 /\ lastCall'.ret <=> info.count >= 300)
       /\ lastCall'.ret <=> getRateLimitRemaining(rateLimits, k, now) = 0
       /\ lastCall'.ret => rateLimits'[k] = info
       /\ \A o \in Keys \ {k} : rateLimits'[o] = rateLimits[o]

C30_WindowRollover == [][now' = now => C30_Call]_vars

\* at now == resetAt the old window still applies: the 301st call of the
\* window is rejected and nothing is left of the limit
C30_Witness ==
    /\ rateLimits["ip1"].has
    /\ now = rateLimits["ip1"].resetAt
    /\ lastCall = [key |-> "ip1", ret |-> TRUE, made |-> TRUE]
    /\ windowCalls["ip1"] = 301
    /\ getRateLimitRemaining(rateLimits, "ip1", now) = 0

====
